---- MODULE Spec2Model ----
(***************************************************************************)
(* Verification model of the Cloudflare KV worker: the D1-backed key-value *)
(* namespace (D1KVNamespace), the authentication middleware (hmacAuth) and *)
(* the bulk-write handler of the REST API.                                 *)
(*                                                                         *)
(* Strings whose characters matter (keys, prefixes, cursors, header        *)
(* values, request bodies) are sequences of one-character strings.         *)
(* Optional values (undefined / null / SQL NULL) are sequences of length   *)
(* zero or one.                                                            *)
(***************************************************************************)
EXTENDS Integers, Sequences, FiniteSets, TLC

(***************************************************************************)
(* TLC keeps the fields of a record in the order in which their names      *)
(* first appear in the module. Every record of the model is written with   *)
(* its fields in the order of this list, so that no record needs sorting.  *)
(***************************************************************************)
FieldOrder ==
    [key |-> 0,
     op |-> 1, kind |-> 2, name |-> 3, value |-> 4, expiration |-> 5, expirationTtl |-> 6,
     metadata |-> 7, options |-> 8, ms |-> 9, arg |-> 10, result |-> 11, existed |-> 12,
     keys |-> 13, list_complete |-> 14, state |-> 15, prefix |-> 16, limit |-> 17,
     cursor |-> 18, names |-> 19, pages |-> 20, quiet |-> 21, t |-> 22, json |-> 23,
     offset |-> 24, digest |-> 25, upper |-> 26, message |-> 28,
     method |-> 29, path |-> 30, authorization |-> 31, timestamp |-> 32,
     signature |-> 33, success |-> 34, total |-> 35, successful |-> 36, failed |-> 37,
     results |-> 38, admitted |-> 39, status |-> 40, error |-> 41, body |-> 42,
     phase |-> 43, attempt |-> 44, delay |-> 45, outcome |-> 46, puts |-> 47, waits |-> 48,
     deletes |-> 49, errors |-> 50, type |-> 51,
     thrown |-> 52, sent |-> 53, values |-> 54, single |-> 55,
     batch |-> 56, listed |-> 57, query |-> 58, req |-> 59, decision |-> 60,
     alone |-> 61]

VARIABLES
    store,      \* the kv_store table: primary key -> row
    nowMs,      \* Date.now(), in milliseconds
    resp,       \* the operation that completed last, with its result
    lastWrite,  \* history: per key, the last put or delete issued for it
    trav,       \* a paginated listing in progress (the caller's loop)
    secretKey,  \* the AUTH_SECRET_KEY binding of the worker
    req,        \* the HTTP request being served
    auth,       \* what the authentication middleware decided for req
    calls,      \* the storage operations issued while serving req
    pc,         \* where the request is: idle, auth, handler, responded
    pairs,      \* the entries of the bulk write being served
    tasks,      \* one writeWithRetry task per entry
    bulkResp,   \* the response of the bulk write, once produced
    served      \* history: the requests answered so far, each with the server time and the decision

kvVars == <<store, nowMs, resp, lastWrite, trav>>
authVars == <<secretKey, req, auth, calls, pc, served>>
bulkVars == <<pairs, tasks, bulkResp>>
vars == <<store, nowMs, resp, lastWrite, trav, secretKey, req, auth, calls, pc,
          pairs, tasks, bulkResp, served>>

----------------------------------------------------------------------------
(* Optional values *)

None == <<>>
Some(x) == <<x>>
IsSome(o) == o # <<>>
Val(o) == o[1]

Range(s) == {s[i] : i \in 1..Len(s)}

----------------------------------------------------------------------------
(* Bounds of the model *)

MaxNowMs == 130999          \* the clock stops advancing here
MaxPages == 6               \* pages fetched by one paginated listing
TickSteps == {30000}        \* the clock advances in steps of 30 s
ListTickSteps == {120000}   \* while listing, the clock jumps past every expiration

(* Inputs *)

Keys == {<<"A">>, <<"a">>, <<"a", "b">>}
PointKeys == {<<"a">>, <<"a", "b">>}
Values == {"", "x"}
EmptyObject == [t |-> "object", json |-> "{}"]
Zero == [t |-> "number", json |-> "0"]
JsValues == {EmptyObject, Zero}
Metadatas == {None, Some(EmptyObject), Some(Zero)}
StartTimes == {999}
Ttls == {60}
Expirations == {90}
Prefixes == {<<>>, <<"a">>, <<"A">>}
Limits == {None, Some(1), Some(2)}
KeyLists == {<<<<"a">>>>, <<<<"a">>, <<"a", "b">>, <<"a">>>>, <<<<"A">>, <<"a", "b">>>>}

\* the shared secret, tokens around it, and the clock of the auth scenarios
Secret == <<"s", "3">>
Tokens == {<<"s">>, Secret, Secret \o <<"x">>}
AuthNowMs == 1000000
Bodies == {<<>>, <<"{", "}">>}

NoOptions == [expiration |-> None, expirationTtl |-> None, metadata |-> None]
PutOptions ==
    {[expiration |-> None, expirationTtl |-> None, metadata |-> m] : m \in Metadatas}
    \cup {[expiration |-> None, expirationTtl |-> Some(t), metadata |-> None] : t \in Ttls}
    \cup {[expiration |-> Some(e), expirationTtl |-> None, metadata |-> None] : e \in Expirations}
ListPutOptions == {o \in PutOptions : o.expirationTtl = None /\ o.metadata = None}

----------------------------------------------------------------------------
(* D1KVNamespace: helpers *)

\* Math.floor(Date.now() / 1000)
currentTime(ms) == ms \div 1000

\* a JavaScript number used as a condition
Truthy(o) == IsSome(o) /\ Val(o) # 0

getExpiration(options, ms) ==
    IF Truthy(options.expiration) THEN Some(Val(options.expiration))
    ELSE IF Truthy(options.expirationTtl)
         THEN Some(currentTime(ms) + Val(options.expirationTtl))
         ELSE None

\* (mutant) the boundary second still counts as unexpired
Unexpired_inclusive(row, t) == row.expiration = None \/ Val(row.expiration) >= t

\* WHERE ... (expiration IS NULL OR expiration > ?)
Unexpired(row, t) == row.expiration = None \/ Val(row.expiration) > t

\* the rows a SELECT with the expiration predicate can see
VisibleKeys(s, ms) == {k \in DOMAIN s : Unexpired(s[k], currentTime(ms))}

----------------------------------------------------------------------------
(* D1KVNamespace: get, getWithMetadata, put, delete, cleanupExpired *)

\* (mutant) the value itself is used as the condition: '' reads as absent
get_emptyIsAbsent(s, key, ms) ==
    IF key \in VisibleKeys(s, ms) /\ s[key].value # "" THEN Some(s[key].value) ELSE None

get(s, key, ms) ==
    IF key \in VisibleKeys(s, ms) THEN Some(s[key].value) ELSE None

\* a JavaScript value used as a condition
JsTruthy(v) == ~(v.t = "number" /\ v.json = "0") /\ ~(v.t = "string" /\ v.json = "\"\"")

\* JSON.stringify(value) and JSON.parse(text) on the values of the model
JSONstringify(v) == v.json
JSONparse(text) == CHOOSE v \in JsValues : v.json = text

\* row.metadata ? JSON.parse(row.metadata) : null
parseMetadata(text) ==
    IF IsSome(text) /\ Val(text) # "" THEN Some(JSONparse(Val(text))) ELSE None

getWithMetadata(s, key, ms) ==
    IF key \in VisibleKeys(s, ms)
    THEN [value |-> Some(s[key].value), metadata |-> parseMetadata(s[key].metadata)]
    ELSE [value |-> None, metadata |-> None]

\* (mutant) the map is not initialised with null for the requested keys
batchGet_rowsOnly(s, keys, ms) ==
    LET rows == {k \in VisibleKeys(s, ms) : k \in Range(keys)}
    IN  [k \in rows |-> Some(s[k].value)]

\* batch get: the map starts with null for every requested key, then takes
\* the value of every row the IN query returned
batchGet(s, keys, ms) ==
    LET requested == Range(keys)
        rows == {k \in VisibleKeys(s, ms) : k \in requested}
    IN  [k \in requested \cup rows |-> IF k \in rows THEN Some(s[k].value) ELSE None]

batchGetWithMetadata(s, keys, ms) ==
    LET requested == Range(keys)
        rows == {k \in VisibleKeys(s, ms) : k \in requested}
    IN  [k \in requested \cup rows |->
            IF k \in rows
            THEN [value |-> Some(s[k].value), metadata |-> parseMetadata(s[k].metadata)]
            ELSE [value |-> None, metadata |-> None]]

\* options.metadata ? JSON.stringify(options.metadata) : null
putMetadata(options) ==
    IF IsSome(options.metadata) /\ JsTruthy(Val(options.metadata))
    THEN Some(JSONstringify(Val(options.metadata)))
    ELSE None

\* (mutant) an upsert that leaves the stored metadata when the put gives none
put_keepsMetadata(s, key, value, options, ms) ==
    LET row == [value |-> value,
                expiration |-> getExpiration(options, ms),
                metadata |-> IF putMetadata(options) = None /\ key \in DOMAIN s
                             THEN s[key].metadata
                             ELSE putMetadata(options)]
    IN  [k \in DOMAIN s \cup {key} |-> IF k = key THEN row ELSE s[k]]

\* INSERT OR REPLACE INTO kv_store (key, value, metadata, expiration, ...)
put(s, key, value, options, ms) ==
    LET row == [value |-> value,
                expiration |-> getExpiration(options, ms),
                metadata |-> putMetadata(options)]
    IN  [k \in DOMAIN s \cup {key} |-> IF k = key THEN row ELSE s[k]]

\* (mutant) the DELETE only removes rows that never expire
delete_keepsExpiring(s, key) ==
    [k \in {j \in DOMAIN s : j # key \/ s[j].expiration # None} |-> s[k]]

\* DELETE FROM kv_store WHERE key = ?
delete(s, key) == [k \in DOMAIN s \ {key} |-> s[k]]

\* DELETE FROM kv_store WHERE expiration IS NOT NULL AND expiration <= ?
ExpiredKeys(s, ms) ==
    {k \in DOMAIN s : s[k].expiration # None /\ Val(s[k].expiration) <= currentTime(ms)}

\* (mutant) the DELETE removes every row that has an expiration
cleanupExpired_allExpiring(s, ms) ==
    [k \in {j \in DOMAIN s : s[j].expiration = None} |-> s[k]]

cleanupExpired(s, ms) == [k \in DOMAIN s \ ExpiredKeys(s, ms) |-> s[k]]

----------------------------------------------------------------------------
(* Characters, ordering and LIKE *)

\* the UTF-8 code of the characters the model uses
CharCode ==
    [c \in {"%", "\"", "0", "1", "2", "3", "4", "5", "6", "7", "8", "9", ":", "A", "_",
            "a", "b", "e", "f", "o", "s", "t", "{", "}", "-", "!"} |->
        CASE c = "!" -> 33 [] c = "\"" -> 34 [] c = "%" -> 37 [] c = "-" -> 45
          [] c = "0" -> 48 [] c = "1" -> 49 [] c = "2" -> 50 [] c = "3" -> 51
          [] c = "4" -> 52 [] c = "5" -> 53 [] c = "6" -> 54 [] c = "7" -> 55
          [] c = "8" -> 56 [] c = "9" -> 57 [] c = ":" -> 58 [] c = "A" -> 65
          [] c = "_" -> 95 [] c = "a" -> 97 [] c = "b" -> 98 [] c = "e" -> 101
          [] c = "f" -> 102 [] c = "o" -> 111 [] c = "s" -> 115 [] c = "t" -> 116
          [] c = "{" -> 123 [] c = "}" -> 125]

\* ORDER BY key: the BINARY collation compares the bytes
RECURSIVE KeyLess(_, _)
KeyLess(x, y) ==
    IF x = <<>> THEN y # <<>>
    ELSE IF y = <<>> THEN FALSE
    ELSE IF CharCode[Head(x)] # CharCode[Head(y)] THEN CharCode[Head(x)] < CharCode[Head(y)]
    ELSE KeyLess(Tail(x), Tail(y))

RECURSIVE OrderBy(_)
OrderBy(S) ==
    IF S = {} THEN <<>>
    ELSE LET m == CHOOSE x \in S : \A y \in S \ {x} : KeyLess(x, y)
         IN  <<m>> \o OrderBy(S \ {m})

\* SQLite's LIKE folds the case of ASCII letters
LikeFold(c) == IF CharCode[c] >= 65 /\ CharCode[c] <= 90
               THEN CHOOSE d \in DOMAIN CharCode : CharCode[d] = CharCode[c] + 32
               ELSE c

\* str LIKE pattern, without an ESCAPE clause: % is any run, _ any character
RECURSIVE Like(_, _)
Like(str, pattern) ==
    IF pattern = <<>> THEN str = <<>>
    ELSE IF Head(pattern) = "%"
         THEN \E i \in 0..Len(str) : Like(SubSeq(str, i + 1, Len(str)), Tail(pattern))
    ELSE IF str = <<>> THEN FALSE
    ELSE IF Head(pattern) = "_" THEN Like(Tail(str), Tail(pattern))
    ELSE LikeFold(Head(str)) = LikeFold(Head(pattern)) /\ Like(Tail(str), Tail(pattern))

\* String.prototype.startsWith
StartsWith(str, prefix) ==
    Len(prefix) <= Len(str) /\ SubSeq(str, 1, Len(prefix)) = prefix

----------------------------------------------------------------------------
(* Cursors: btoa(JSON.stringify({ offset })) and back *)

DigitChars == <<"0", "1", "2", "3", "4", "5", "6", "7", "8", "9">>

\* Number.prototype.toString for an integer, as JSON.stringify prints it
RECURSIVE Digits(_)
Digits(n) ==
    IF n < 10 THEN <<DigitChars[n + 1]>>
    ELSE Digits(n \div 10) \o <<DigitChars[(n % 10) + 1]>>

numberToString(n) == IF n < 0 THEN <<"-">> \o Digits(0 - n) ELSE Digits(n)

OffsetOpen == <<"{", "\"", "o", "f", "f", "s", "e", "t", "\"", ":">>

\* JSON.stringify({ offset })
stringifyOffset(offset) == OffsetOpen \o numberToString(offset) \o <<"}">>

B64Alphabet ==
    <<"A", "B", "C", "D", "E", "F", "G", "H", "I", "J", "K", "L", "M", "N", "O", "P",
      "Q", "R", "S", "T", "U", "V", "W", "X", "Y", "Z", "a", "b", "c", "d", "e", "f",
      "g", "h", "i", "j", "k", "l", "m", "n", "o", "p", "q", "r", "s", "t", "u", "v",
      "w", "x", "y", "z", "0", "1", "2", "3", "4", "5", "6", "7", "8", "9", "+", "/">>

\* base64 of a sequence of bytes
RECURSIVE b64Encode(_)
b64Encode(b) ==
    IF Len(b) = 0 THEN <<>>
    ELSE IF Len(b) = 1
         THEN <<B64Alphabet[(b[1] \div 4) + 1], B64Alphabet[((b[1] % 4) * 16) + 1], "=", "=">>
    ELSE IF Len(b) = 2
         THEN <<B64Alphabet[(b[1] \div 4) + 1],
                B64Alphabet[((b[1] % 4) * 16) + (b[2] \div 16) + 1],
                B64Alphabet[((b[2] % 16) * 4) + 1], "=">>
    ELSE <<B64Alphabet[(b[1] \div 4) + 1],
           B64Alphabet[((b[1] % 4) * 16) + (b[2] \div 16) + 1],
           B64Alphabet[((b[2] % 16) * 4) + (b[3] \div 64) + 1],
           B64Alphabet[(b[3] % 64) + 1]>> \o b64Encode(SubSeq(b, 4, Len(b)))

btoa(text) == b64Encode([i \in 1..Len(text) |-> CharCode[text[i]]])

\* the value of each base64 character, and the character of each byte
B64Chars == Range(B64Alphabet)
B64Value == [c \in B64Chars |-> (CHOOSE i \in 1..64 : B64Alphabet[i] = c) - 1]
ByteChar ==
    [b \in 0..255 |-> IF \E c \in DOMAIN CharCode : CharCode[c] = b
                      THEN CHOOSE c \in DOMAIN CharCode : CharCode[c] = b
                      ELSE "?"]

B64Index(c) == B64Value[c]

\* the bytes of a run of base64 characters without padding
RECURSIVE b64Decode(_)
b64Decode(c) ==
    IF Len(c) < 2 THEN <<>>
    ELSE LET s1 == B64Index(c[1])
             s2 == B64Index(c[2])
             b1 == (s1 * 4) + (s2 \div 16)
         IN  IF Len(c) = 2 THEN <<b1>>
             ELSE LET s3 == B64Index(c[3])
                      b2 == ((s2 % 16) * 16) + (s3 \div 4)
                  IN  IF Len(c) = 3 THEN <<b1, b2>>
                      ELSE <<b1, b2, ((s3 % 4) * 64) + B64Index(c[4])>>
                           \o b64Decode(SubSeq(c, 5, Len(c)))

\* the character of a byte; a byte outside the model's characters reads as "?"
CharOf(b) == ByteChar[b]

\* (mutant) atob refuses a padded input
atob_refusesPadding(cursor) ==
    LET n == Len(cursor)
    IN  IF (\E i \in 1..n : cursor[i] \notin B64Chars) \/ n % 4 = 1
        THEN None
        ELSE LET bytes == b64Decode(cursor)
             IN  Some([i \in 1..Len(bytes) |-> CharOf(bytes[i])])

\* atob: None when it throws (a character outside the alphabet, a bad length)
atob(cursor) ==
    LET n == Len(cursor)
        pad == IF n % 4 = 0 /\ n >= 2 /\ cursor[n] = "="
               THEN (IF cursor[n - 1] = "=" THEN 2 ELSE 1)
               ELSE 0
        data == SubSeq(cursor, 1, n - pad)
    IN  IF (\E i \in 1..Len(data) : data[i] \notin B64Chars) \/ Len(data) % 4 = 1
        THEN None
        ELSE LET bytes == b64Decode(data)
             IN  Some([i \in 1..Len(bytes) |-> CharOf(bytes[i])])

\* the value of a run of decimal digits
RECURSIVE digitsValue(_)
digitsValue(d) ==
    IF d = <<>> THEN 0
    ELSE (digitsValue(SubSeq(d, 1, Len(d) - 1)) * 10) + (CharCode[d[Len(d)]] - 48)

IsDigit(c) == c \in Range(DigitChars)

\* a JSON integer: an optional minus, then digits without a leading zero
IsJsonInteger(t) ==
    LET d == IF t # <<>> /\ Head(t) = "-" THEN Tail(t) ELSE t
    IN  /\ d # <<>>
        /\ \A i \in 1..Len(d) : IsDigit(d[i])
        /\ (Len(d) > 1 => d[1] # "0")

jsonInteger(t) == IF Head(t) = "-" THEN 0 - digitsValue(Tail(t)) ELSE digitsValue(t)

\* JSON.parse of a cursor text: Some(offset) for {"offset":n}, None when it throws
parseOffset(text) ==
    LET n == Len(text)
        k == Len(OffsetOpen)
    IN  IF /\ n > k + 1
           /\ SubSeq(text, 1, k) = OffsetOpen
           /\ text[n] = "}"
           /\ IsJsonInteger(SubSeq(text, k + 1, n - 1))
        THEN Some(jsonInteger(SubSeq(text, k + 1, n - 1)))
        ELSE None

\* parseCursor: no cursor, or one that does not decode, starts at offset 0
parseCursor(cursor) ==
    IF ~IsSome(cursor) \/ Val(cursor) = <<>> THEN [offset |-> 0]
    ELSE LET decoded == atob(Val(cursor))
         IN  IF IsSome(decoded) /\ IsSome(parseOffset(Val(decoded)))
             THEN [offset |-> Val(parseOffset(Val(decoded)))]
             ELSE [offset |-> 0]

createCursor(offset) == btoa(stringifyOffset(offset))

----------------------------------------------------------------------------
(* D1KVNamespace.list *)

LimitDefault == 1000

Min(x, y) == IF x < y THEN x ELSE y
Max(x, y) == IF x > y THEN x ELSE y

\* LIMIT n OFFSET o of SQLite: a negative LIMIT is no limit, a negative OFFSET is 0
LimitOffset(rows, n, o) ==
    LET from == Max(o, 0) + 1
        to == IF n < 0 THEN Len(rows) ELSE Min(Len(rows), Max(o, 0) + n)
    IN  SubSeq(rows, from, to)

\* Array.prototype.slice(0, end)
slice0(rows, end) ==
    SubSeq(rows, 1, IF end < 0 THEN Max(Len(rows) + end, 0) ELSE Min(end, Len(rows)))

\* (mutant) the list query has no expiration predicate
ListMatches_noExpiration(s, prefix, ms) == {k \in DOMAIN s : Like(k, prefix \o <<"%">>)}

\* the rows WHERE key LIKE ? || '%' AND (expiration IS NULL OR expiration > ?)
ListMatches(s, prefix, ms) == {k \in VisibleKeys(s, ms) : Like(k, prefix \o <<"%">>)}

keyItem(s, k) ==
    [name |-> k,
     expiration |-> IF Truthy(s[k].expiration) THEN s[k].expiration ELSE None,
     metadata |-> parseMetadata(s[k].metadata)]

\* list deciding "more" from a full page instead of from the row after it
list_fullPageHasMore(s, options, ms) ==
    LET limit == IF Truthy(options.limit) THEN Val(options.limit) ELSE LimitDefault
        offset == parseCursor(options.cursor).offset
        prefix == IF IsSome(options.prefix) THEN Val(options.prefix) ELSE <<>>
        results == LimitOffset(OrderBy(ListMatches(s, prefix, ms)), limit, offset)
        hasMore == Len(results) = limit
    IN  [keys |-> [i \in 1..Len(results) |-> keyItem(s, results[i])],
         list_complete |-> ~hasMore,
         cursor |-> IF hasMore THEN Some(createCursor(offset + limit)) ELSE None]

list(s, options, ms) ==
    LET limit == IF Truthy(options.limit) THEN Val(options.limit) ELSE LimitDefault
        offset == parseCursor(options.cursor).offset
        prefix == IF IsSome(options.prefix) THEN Val(options.prefix) ELSE <<>>
        results == LimitOffset(OrderBy(ListMatches(s, prefix, ms)), limit + 1, offset)
        page == slice0(results, limit)
        hasMore == Len(results) > limit
    IN  [keys |-> [i \in 1..Len(page) |-> keyItem(s, page[i])],
         list_complete |-> ~hasMore,
         cursor |-> IF hasMore THEN Some(createCursor(offset + limit)) ELSE None]

ListOptions(prefix, limit, cursor) == [prefix |-> prefix, limit |-> limit, cursor |-> cursor]

----------------------------------------------------------------------------
(* Requests, headers and the HMAC of the authentication middleware *)

GET == <<"G", "E", "T">>
POST == <<"P", "O", "S", "T">>
PUT == <<"P", "U", "T">>
DELETE == <<"D", "E", "L", "E", "T", "E">>

ApiBase == <<"/", "a", "p", "i", "/", "v", "1">>
PathIndex == ApiBase \o <<"/">>
PathDocs == ApiBase \o <<"/", "d", "o", "c", "s">>
PathOpenapi == ApiBase \o <<"/", "o", "p", "e", "n", "a", "p", "i">>
PathKv == ApiBase \o <<"/", "k", "v">>
PathKvKey(key) == PathKv \o <<"/">> \o key
PathKvBulk == PathKvKey(<<"b", "u", "l", "k">>)

BearerPrefix == <<"B", "e", "a", "r", "e", "r", " ">>

\* String.prototype.substring(start)
substring(str, start) == SubSeq(str, start + 1, Len(str))

\* HMAC-SHA256 as an ideal MAC: the digest determines the key and the message
hmacSha256(key, message) == [key |-> key, message |-> message]

\* the digest as hex digits; toString(16) prints lower-case digits
hexEncode(digest) == [digest |-> digest, upper |-> FALSE]

toLowerCase(hex) == [hex EXCEPT !.upper = FALSE]
toUpperCase(hex) == [hex EXCEPT !.upper = TRUE]

\* Number.parseInt(text, 10): the value of the longest prefix that reads as
\* an integer, None for NaN
parseInt(text) ==
    LET signed == text # <<>> /\ Head(text) \in {"-", "+"}
        body == IF signed THEN Tail(text) ELSE text
        n == CHOOSE i \in 0..Len(body) :
                /\ \A j \in 1..i : IsDigit(body[j])
                /\ (i < Len(body) => ~IsDigit(body[i + 1]))
    IN  IF n = 0 THEN None
        ELSE IF signed /\ Head(text) = "-" THEN Some(0 - digitsValue(SubSeq(body, 1, n)))
        ELSE Some(digitsValue(SubSeq(body, 1, n)))

Abs(x) == IF x < 0 THEN 0 - x ELSE x

TimestampWindow == 300000

\* Math.abs(currentTime - requestTime) > 300000; a comparison with NaN is false
TimestampExpired(ms, requestTime) ==
    IsSome(requestTime) /\ Abs(ms - Val(requestTime)) > TimestampWindow

\* the paths the middleware lets through without looking at credentials
SkipAuthPaths == {PathOpenapi, PathDocs, PathIndex}

\* (mutant) every path under the API base skips authentication
skipsAuth_prefix(path) == StartsWith(path, PathIndex)

\* c.req.path === '/api/v1/openapi' || ... === '/api/v1/docs' || ... === '/api/v1/'
skipsAuth(path) == path \in SkipAuthPaths

\* (mutant) the token is accepted when it starts with the secret
tokenMatches_prefix(token, secret) == StartsWith(token, secret)

\* token === secretKey
tokenMatches(token, secret) == token = secret

\* (mutant) the signatures are compared without folding the case
signatureMatches_caseSensitive(signature, expected) == signature = expected

\* signature.toLowerCase() === expectedSignature.toLowerCase()
signatureMatches(signature, expected) == toLowerCase(signature) = toLowerCase(expected)

Admit(body) == [admitted |-> TRUE, status |-> 0, error |-> "", body |-> body]
Reject(status, error) == [admitted |-> FALSE, status |-> status, error |-> error, body |-> <<>>]

\* a header or binding that is set and not the empty string
IsSet(o) == IsSome(o) /\ Val(o) # <<>>

\* the message the middleware signs: METHOD + PATH + TIMESTAMP + BODY, where
\* the body is read only when the method is neither GET nor DELETE
signedBody(r) == IF r.method # GET /\ r.method # DELETE THEN r.body ELSE <<>>
\* (mutant) the query string is part of the signed message
signedMessage_withQuery(r) ==
    r.method \o r.path \o r.query \o Val(r.timestamp) \o signedBody(r)

signedMessage(r) == r.method \o r.path \o Val(r.timestamp) \o signedBody(r)

\* (mutant) a missing secret is reported like a wrong credential
hmacAuth_unconfiguredIs401(r, secret, ms) ==
    IF skipsAuth(r.path) THEN Admit(r.body)
    ELSE IF ~IsSet(r.authorization) /\ ~IsSome(r.signature)
         THEN Reject(401, "Missing authentication")
    ELSE IF ~IsSet(secret) THEN Reject(401, "Invalid authentication token")
    ELSE IF IsSome(r.authorization) /\ StartsWith(Val(r.authorization), BearerPrefix)
         THEN IF tokenMatches(substring(Val(r.authorization), 7), Val(secret))
              THEN Admit(r.body)
              ELSE Reject(401, "Invalid authentication token")
    ELSE IF IsSome(r.signature) /\ IsSet(r.timestamp)
         THEN IF TimestampExpired(ms, parseInt(Val(r.timestamp)))
              THEN Reject(401, "Request timestamp expired")
              ELSE IF signatureMatches(Val(r.signature),
                                       hexEncode(hmacSha256(Val(secret), signedMessage(r))))
                   THEN Admit(IF r.method # GET /\ r.method # DELETE
                              THEN signedBody(r) ELSE r.body)
                   ELSE Reject(401, "Invalid HMAC signature")
    ELSE Reject(401, "Invalid authentication method")

\* (mutant) the body read for signing is not attached again: the handler gets none
hmacAuth_bodyConsumed(r, secret, ms) ==
    IF skipsAuth(r.path) THEN Admit(r.body)
    ELSE IF ~IsSet(r.authorization) /\ ~IsSome(r.signature)
         THEN Reject(401, "Missing authentication")
    ELSE IF ~IsSet(secret) THEN Reject(500, "Server authentication not configured")
    ELSE IF IsSome(r.authorization) /\ StartsWith(Val(r.authorization), BearerPrefix)
         THEN IF tokenMatches(substring(Val(r.authorization), 7), Val(secret))
              THEN Admit(r.body)
              ELSE Reject(401, "Invalid authentication token")
    ELSE IF IsSome(r.signature) /\ IsSet(r.timestamp)
         THEN IF TimestampExpired(ms, parseInt(Val(r.timestamp)))
              THEN Reject(401, "Request timestamp expired")
              ELSE IF signatureMatches(Val(r.signature),
                                       hexEncode(hmacSha256(Val(secret), signedMessage(r))))
                   THEN Admit(IF r.method # GET /\ r.method # DELETE
                              THEN <<>> ELSE r.body)
                   ELSE Reject(401, "Invalid HMAC signature")
    ELSE Reject(401, "Invalid authentication method")

\* (mutant) a wrong bearer token does not end the decision: the signature is tried next
hmacAuth_bearerFallsThrough(r, secret, ms) ==
    IF skipsAuth(r.path) THEN Admit(r.body)
    ELSE IF ~IsSet(r.authorization) /\ ~IsSome(r.signature)
         THEN Reject(401, "Missing authentication")
    ELSE IF ~IsSet(secret) THEN Reject(500, "Server authentication not configured")
    ELSE IF /\ IsSome(r.authorization) /\ StartsWith(Val(r.authorization), BearerPrefix)
            /\ tokenMatches(substring(Val(r.authorization), 7), Val(secret))
         THEN Admit(r.body)
    ELSE IF IsSome(r.signature) /\ IsSet(r.timestamp)
         THEN IF TimestampExpired(ms, parseInt(Val(r.timestamp)))
              THEN Reject(401, "Request timestamp expired")
              ELSE IF signatureMatches(Val(r.signature),
                                       hexEncode(hmacSha256(Val(secret), signedMessage(r))))
                   THEN Admit(IF r.method # GET /\ r.method # DELETE
                              THEN signedBody(r) ELSE r.body)
                   ELSE Reject(401, "Invalid HMAC signature")
    ELSE IF IsSome(r.authorization) /\ StartsWith(Val(r.authorization), BearerPrefix)
         THEN Reject(401, "Invalid authentication token")
    ELSE Reject(401, "Invalid authentication method")

hmacAuth(r, secret, ms) ==
    IF skipsAuth(r.path) THEN Admit(r.body)
    ELSE IF ~IsSet(r.authorization) /\ ~IsSome(r.signature)
         THEN Reject(401, "Missing authentication")
    ELSE IF ~IsSet(secret) THEN Reject(500, "Server authentication not configured")
    ELSE IF IsSome(r.authorization) /\ StartsWith(Val(r.authorization), BearerPrefix)
         THEN IF tokenMatches(substring(Val(r.authorization), 7), Val(secret))
              THEN Admit(r.body)
              ELSE Reject(401, "Invalid authentication token")
    ELSE IF IsSome(r.signature) /\ IsSet(r.timestamp)
         THEN IF TimestampExpired(ms, parseInt(Val(r.timestamp)))
              THEN Reject(401, "Request timestamp expired")
              ELSE IF signatureMatches(Val(r.signature),
                                       hexEncode(hmacSha256(Val(secret), signedMessage(r))))
                   THEN Admit(IF r.method # GET /\ r.method # DELETE
                              THEN signedBody(r) ELSE r.body)
                   ELSE Reject(401, "Invalid HMAC signature")
    ELSE Reject(401, "Invalid authentication method")

----------------------------------------------------------------------------
(* The SDK client's signing (KVClient.generateHMACSignature) *)

generateHMACSignature(secret, method, path, timestamp, body) ==
    hexEncode(hmacSha256(secret, method \o path \o timestamp \o body))

----------------------------------------------------------------------------
(* The SDK client's requests (KVClient.request and the methods that call it) *)

\* encodeURIComponent on the characters of the model: letters, digits and
\* - _ . ! ~ * ' ( ) stay, every other character becomes its escape
EscapeOf(c) ==
    CASE c = " " -> <<"%", "2", "0">>
      [] c = ":" -> <<"%", "3", "A">>
      [] c = "/" -> <<"%", "2", "F">>
      [] c = "?" -> <<"%", "3", "F">>
      [] OTHER -> <<c>>

RECURSIVE encodeURIComponent(_)
encodeURIComponent(str) ==
    IF str = <<>> THEN <<>> ELSE EscapeOf(Head(str)) \o encodeURIComponent(Tail(str))

\* decodeURI: an escape is replaced by its character unless the character is
\* one of ; / ? : @ & = + $ , # (of the escapes above only %20 is replaced)
RECURSIVE decodeURI(_)
decodeURI(str) ==
    IF str = <<>> THEN <<>>
    ELSE IF Len(str) >= 3 /\ SubSeq(str, 1, 3) = <<"%", "2", "0">>
         THEN <<" ">> \o decodeURI(SubSeq(str, 4, Len(str)))
         ELSE <<Head(str)>> \o decodeURI(Tail(str))

\* where the query of a URL begins: the first '?', or past the end
QueryStart(url) ==
    IF \E i \in 1..Len(url) : url[i] = "?"
    THEN CHOOSE i \in 1..Len(url) : url[i] = "?" /\ \A j \in 1..(i - 1) : url[j] # "?"
    ELSE Len(url) + 1

\* new URL(url).pathname and .search (without the '?'), for a URL whose path
\* is already escaped; the origin is left out
pathname(url) == SubSeq(url, 1, QueryStart(url) - 1)
search(url) == SubSeq(url, QueryStart(url) + 1, Len(url))

\* the calls of the client: method, endpoint and body handed to request()
SdkGet(key, type) ==
    [method |-> GET, path |-> PathKvKey(encodeURIComponent(key)) \o <<"?", "t", "=">> \o type,
     body |-> <<>>]
SdkList(prefix) ==
    [method |-> GET,
     path |-> PathKv \o (IF prefix = <<>> THEN <<>> ELSE <<"?", "p", "=">> \o prefix),
     body |-> <<>>]
SdkPut(key, body) ==
    [method |-> PUT, path |-> PathKvKey(encodeURIComponent(key)), body |-> body]
SdkCreate(body) == [method |-> POST, path |-> PathKv, body |-> body]
SdkBulkWrite(body) == [method |-> POST, path |-> PathKvBulk, body |-> body]
SdkDelete(key) ==
    [method |-> DELETE, path |-> PathKvKey(encodeURIComponent(key)), body |-> <<>>]

\* KVClient.request in HMAC mode, at the client's time: the signature is made
\* over the pathname of the URL and the body, the fetch goes to the whole URL.
\* What arrives is the request as the server's router presents it: c.req.path
\* is the pathname of the URL, decoded by the router or not.
request(secret, call, clientMs, decodes) ==
    LET urlPath == pathname(call.path)
        timestamp == numberToString(clientMs)
    IN  [method |-> call.method,
         path |-> IF decodes THEN decodeURI(urlPath) ELSE urlPath,
         authorization |-> None,
         timestamp |-> Some(timestamp),
         signature |-> Some(generateHMACSignature(secret, call.method, urlPath,
                                                  timestamp, call.body)),
         body |-> call.body,
         query |-> search(call.path)]

----------------------------------------------------------------------------
(* The key-value namespace as a state machine *)

NoWrite == [kind |-> "none", value |-> "", options |-> NoOptions, ms |-> 0]
NoTraversal == [state |-> "idle", prefix |-> <<>>, limit |-> 0, cursor |-> None,
                names |-> <<>>, pages |-> 0, quiet |-> TRUE]

NoResponse == [op |-> "none", ms |-> 0, arg |-> None, result |-> None]

\* a listing stops being undisturbed when the table or the clock changes
Disturb == trav' = IF trav.state # "idle" THEN [trav EXCEPT !.quiet = FALSE] ELSE trav

NoBulkResponse == [success |-> FALSE, total |-> 0, successful |-> 0, failed |-> 0,
                   results |-> <<>>, status |-> 0]

NoRequest == [method |-> <<>>, path |-> <<>>, authorization |-> None, timestamp |-> None,
              signature |-> None, body |-> <<>>, query |-> <<>>]
NoDecision == [admitted |-> FALSE, status |-> 0, error |-> "", body |-> <<>>]

InitKV ==
    /\ store = [k \in {} |-> NoWrite]
    /\ nowMs \in StartTimes
    /\ resp = NoResponse
    /\ lastWrite = [k \in Keys |-> NoWrite]
    /\ trav = NoTraversal
    /\ secretKey = Some(Secret)
    /\ req = NoRequest
    /\ auth = NoDecision
    /\ calls = <<>>
    /\ pc = "idle"
    /\ served = <<>>
    /\ pairs = <<>>
    /\ tasks = <<>>
    /\ bulkResp = NoBulkResponse

Put(key, value, options) ==
    /\ store' = put(store, key, value, options, nowMs)
    /\ lastWrite' = [lastWrite EXCEPT ![key] =
            [kind |-> "put", value |-> value, options |-> options,
             ms |-> IF IsSome(options.expirationTtl) THEN nowMs ELSE 0]]
    /\ resp' = [op |-> "put", ms |-> nowMs, arg |-> key, result |-> None,
                existed |-> key \in DOMAIN store]
    /\ Disturb
    /\ UNCHANGED nowMs
    /\ UNCHANGED <<authVars, bulkVars>>

Delete(key) ==
    /\ store' = delete(store, key)
    /\ lastWrite' = [lastWrite EXCEPT ![key] =
            [kind |-> "delete", value |-> "", options |-> NoOptions, ms |-> 0]]
    /\ resp' = [op |-> "delete", ms |-> nowMs, arg |-> key, result |-> None,
                existed |-> key \in DOMAIN store]
    /\ Disturb
    /\ UNCHANGED nowMs
    /\ UNCHANGED <<authVars, bulkVars>>

CleanupExpired ==
    /\ store' = cleanupExpired(store, nowMs)
    /\ resp' = [op |-> "cleanupExpired", ms |-> nowMs, arg |-> None,
                result |-> Cardinality(ExpiredKeys(store, nowMs))]
    /\ Disturb
    /\ UNCHANGED <<nowMs, lastWrite>>
    /\ UNCHANGED <<authVars, bulkVars>>

Get(key) ==
    /\ resp' = [op |-> "get", ms |-> nowMs, arg |-> key, result |-> get(store, key, nowMs)]
    /\ UNCHANGED <<store, nowMs, lastWrite, trav>>
    /\ UNCHANGED <<authVars, bulkVars>>

GetWithMetadata(key) ==
    /\ resp' = [op |-> "getWithMetadata", ms |-> nowMs, arg |-> key,
                result |-> getWithMetadata(store, key, nowMs)]
    /\ UNCHANGED <<store, nowMs, lastWrite, trav>>
    /\ UNCHANGED <<authVars, bulkVars>>

BatchGet(keys) ==
    /\ resp' = [op |-> "batchGet", ms |-> nowMs, arg |-> keys, result |-> batchGet(store, keys, nowMs)]
    /\ UNCHANGED <<store, nowMs, lastWrite, trav>>
    /\ UNCHANGED <<authVars, bulkVars>>

BatchGetWithMetadata(keys) ==
    /\ resp' = [op |-> "batchGetWithMetadata", ms |-> nowMs, arg |-> keys,
                result |-> batchGetWithMetadata(store, keys, nowMs)]
    /\ UNCHANGED <<store, nowMs, lastWrite, trav>>
    /\ UNCHANGED <<authVars, bulkVars>>

\* one list call of a listing: the caller appends the page and keeps the cursor
ListPage(prefix, limit, cursor, names, pages, quiet) ==
    LET options == ListOptions(Some(prefix), limit, cursor)
        r == list(store, options, nowMs)
    IN  /\ resp' = [op |-> "list", ms |-> nowMs, arg |-> options, result |-> r]
        /\ trav' = [state |-> IF r.list_complete THEN "done" ELSE "open",
                    prefix |-> prefix, limit |-> limit, cursor |-> r.cursor,
                    names |-> names \o [i \in 1..Len(r.keys) |-> r.keys[i].name],
                    pages |-> pages + 1, quiet |-> quiet]
        /\ UNCHANGED <<store, nowMs, lastWrite>>
        /\ UNCHANGED <<authVars, bulkVars>>

\* list without a cursor
ListFirst(prefix, limit) == ListPage(prefix, limit, None, <<>>, 0, TRUE)

\* list again with the cursor of the previous page, same prefix and limit
ListNext ==
    /\ trav.state = "open"
    /\ trav.pages < MaxPages
    /\ ListPage(trav.prefix, trav.limit, trav.cursor, trav.names, trav.pages, trav.quiet)

\* d milliseconds pass
Tick(d) ==
    /\ nowMs + d <= MaxNowMs
    /\ nowMs' = nowMs + d
    /\ Disturb
    /\ UNCHANGED <<store, resp, lastWrite>>
    /\ UNCHANGED <<authVars, bulkVars>>

\* single-key and batch operations, cleanup and the clock
NextKV ==
    \/ \E k \in PointKeys, v \in Values, o \in PutOptions : Put(k, v, o)
    \/ \E k \in PointKeys : Delete(k)
    \/ CleanupExpired
    \/ \E k \in PointKeys : Get(k)
    \/ \E k \in PointKeys : GetWithMetadata(k)
    \/ \E ks \in KeyLists : BatchGet(ks)
    \/ \E ks \in KeyLists : BatchGetWithMetadata(ks)
    \/ \E d \in TickSteps : Tick(d)

SpecKV == InitKV /\ [][NextKV]_vars

\* absolute expirations at the edges: zero, one the clock passes early, a later one
EdgeExpirations == {0, 30, 90}
AbsolutePutOptions ==
    {[expiration |-> Some(e), expirationTtl |-> None, metadata |-> None] : e \in EdgeExpirations}

\* puts with an absolute expiration, before and after it has passed, and reads
NextExpiry ==
    \/ \E k \in PointKeys, v \in Values, o \in AbsolutePutOptions : Put(k, v, o)
    \/ \E k \in PointKeys : Delete(k)
    \/ CleanupExpired
    \/ \E k \in PointKeys : Get(k)
    \/ \E k \in PointKeys : GetWithMetadata(k)
    \/ \E d \in TickSteps : Tick(d)

SpecExpiry == InitKV /\ [][NextExpiry]_vars

\* paginated listings over a table that is written, deleted from and ageing
NextList ==
    \/ \E k \in Keys, o \in ListPutOptions : Put(k, "x", o)
    \/ \E k \in Keys : Delete(k)
    \/ \E p \in Prefixes, l \in Limits : ListFirst(p, l)
    \/ ListNext
    \/ \E d \in ListTickSteps : Tick(d)

SpecList == InitKV /\ [][NextList]_vars

\* a listing while another key comes, goes and expires: the keys of StableKeys
\* are written before any listing begins and never touched again, the key 'A',
\* which sorts before them, is written and deleted at any time
StableKeys == {<<"a">>, <<"a", "b">>}
OtherKey == <<"A">>

NextListRace ==
    \/ trav.state = "idle" /\ \E k \in StableKeys : Put(k, "x", NoOptions)
    \/ \E o \in ListPutOptions : Put(OtherKey, "x", o)
    \/ Delete(OtherKey)
    \/ \E p \in Prefixes, l \in Limits : ListFirst(p, l)
    \/ ListNext
    \/ \E d \in ListTickSteps : Tick(d)

SpecListRace == InitKV /\ [][NextListRace]_vars

\* listings with the limits at the edge: 0, which reads as the default, and
\* negative numbers, which GET /kv passes on as they come (Number(limit) is
\* tested for truthiness only)
EdgeLimits == {Some(0), Some(1), Some(0 - 1), Some(0 - 2)}

NextListLimits ==
    \/ \E k \in Keys : Put(k, "x", NoOptions)
    \/ \E p \in Prefixes, l \in EdgeLimits : ListFirst(p, l)
    \/ ListNext

SpecListLimits == InitKV /\ [][NextListLimits]_vars

----------------------------------------------------------------------------
(* Cursors made and read back, and listings that follow their cursors *)

MaxOffset == 120            \* the largest offset a cursor is made for

\* an offset is given; nothing is stored and no listing has begun
InitCursor ==
    /\ store = [k \in {} |-> NoWrite]
    /\ nowMs \in StartTimes
    /\ resp \in {[op |-> "offset", ms |-> 0, arg |-> n, result |-> None] : n \in 0..MaxOffset}
    /\ lastWrite = [k \in Keys |-> NoWrite]
    /\ trav = NoTraversal
    /\ secretKey = Some(Secret)
    /\ req = NoRequest
    /\ auth = NoDecision
    /\ calls = <<>>
    /\ pc = "idle"
    /\ served = <<>>
    /\ pairs = <<>>
    /\ tasks = <<>>
    /\ bulkResp = NoBulkResponse

\* createCursor(offset) of the offset given
CreateCursor ==
    /\ resp.op = "offset"
    /\ resp' = [op |-> "createCursor", ms |-> nowMs, arg |-> resp.arg,
                result |-> createCursor(resp.arg)]
    /\ UNCHANGED <<store, nowMs, lastWrite, trav>>
    /\ UNCHANGED <<authVars, bulkVars>>

\* parseCursor of the cursor made last; arg keeps the offset it was made for
ParseCursor ==
    /\ resp.op = "createCursor"
    /\ resp' = [op |-> "parseCursor", ms |-> nowMs,
                arg |-> [cursor |-> resp.result, offset |-> resp.arg],
                result |-> parseCursor(Some(resp.result))]
    /\ UNCHANGED <<store, nowMs, lastWrite, trav>>
    /\ UNCHANGED <<authVars, bulkVars>>

NextCursor ==
    \/ CreateCursor
    \/ ParseCursor
    \/ \E k \in Keys : Put(k, "x", NoOptions)
    \/ \E k \in Keys : Delete(k)
    \/ \E p \in Prefixes, l \in Limits : ListFirst(p, l)
    \/ ListNext

SpecCursor == InitCursor /\ [][NextCursor]_vars

----------------------------------------------------------------------------
(* Serving a request: middleware, then the route handler *)

\* the route of the API that matches, by method and path
Route(method, path) ==
    LET underKv == StartsWith(path, PathKv \o <<"/">>)
        rest == substring(path, Len(PathKv) + 1)
        segs == Cardinality({i \in 1..Len(rest) : rest[i] = "/"}) + 1
    IN  IF path = PathIndex /\ method = GET THEN "root"
        ELSE IF path = PathDocs /\ method = GET THEN "docs"
        ELSE IF path = PathOpenapi /\ method = GET THEN "openapi"
        ELSE IF path = PathKv /\ method = GET THEN "list"
        ELSE IF path = PathKv /\ method = POST THEN "post"
        ELSE IF path = PathKvBulk /\ method = POST THEN "bulk"
        ELSE IF underKv /\ rest # <<>> /\ segs = 1 /\ method = GET THEN "get"
        ELSE IF underKv /\ rest # <<>> /\ segs = 1 /\ method = PUT THEN "put"
        ELSE IF underKv /\ rest # <<>> /\ segs = 1 /\ method = DELETE THEN "delete"
        ELSE "notFound"

\* the storage operations a handler issues once its validators accepted the request
StorageCalls(route) ==
    CASE route = "get" -> <<"get">>
      [] route = "list" -> <<"list">>
      [] route = "post" -> <<"put">>
      [] route = "put" -> <<"put">>
      [] route = "bulk" -> <<"put">>
      [] route = "delete" -> <<"delete">>
      [] OTHER -> <<>>

InitAuth ==
    /\ store = [k \in {} |-> NoWrite]
    /\ nowMs = AuthNowMs
    /\ resp = NoResponse
    /\ lastWrite = [k \in Keys |-> NoWrite]
    /\ trav = NoTraversal
    /\ secretKey \in {None, Some(Secret)}
    /\ req = NoRequest
    /\ auth = NoDecision
    /\ calls = <<>>
    /\ pc = "idle"
    /\ served = <<>>
    /\ pairs = <<>>
    /\ tasks = <<>>
    /\ bulkResp = NoBulkResponse

Methods == {GET, POST, PUT, DELETE}
Paths == {PathIndex, PathDocs, PathOpenapi, PathKv, PathKvKey(<<"a">>), PathKvBulk}
Authorizations ==
    {None} \cup {Some(BearerPrefix \o t) : t \in Tokens}
    \cup {Some(<<"b", "e", "a", "r", "e", "r", " ">> \o Secret)}
Timestamps ==
    {None, Some(<<"a", "b", "c">>), Some(numberToString(AuthNowMs) \o <<"x">>)}
    \cup {Some(numberToString(AuthNowMs + d)) :
            d \in {0 - TimestampWindow - 1, 0 - TimestampWindow, 0,
                   TimestampWindow, TimestampWindow + 1}}
SignatureKinds == {"none", "signed", "signed upper", "other key", "other body"}

\* the X-Signature header a client of the given kind attaches
SignatureFor(kind, method, path, timestamp, body) ==
    LET ts == IF IsSome(timestamp) THEN Val(timestamp) ELSE <<>>
        sent == IF method # GET /\ method # DELETE THEN body ELSE <<>>
    IN  CASE kind = "none" -> None
          [] kind = "signed" -> Some(generateHMACSignature(Secret, method, path, ts, sent))
          [] kind = "signed upper" ->
                Some(toUpperCase(generateHMACSignature(Secret, method, path, ts, sent)))
          [] kind = "other key" ->
                Some(generateHMACSignature(<<"k">>, method, path, ts, sent))
          [] kind = "other body" ->
                Some(generateHMACSignature(Secret, method, path, ts, sent \o <<"!">>))

\* a request arrives
Receive(r) ==
    /\ pc = "idle"
    /\ req' = r
    /\ auth' = NoDecision
    /\ calls' = <<>>
    /\ pc' = "auth"
    /\ UNCHANGED <<secretKey, served>>
    /\ UNCHANGED <<kvVars, bulkVars>>

\* (mutant) the middleware remembers signatures and rejects one it has seen
HmacAuth_rejectsReplay ==
    /\ pc = "auth"
    /\ auth' = IF /\ IsSome(req.signature)
                  /\ \E i \in DOMAIN served : served[i].req.signature = req.signature
               THEN Reject(401, "Signature already used")
               ELSE hmacAuth(req, secretKey, nowMs)
    /\ pc' = IF auth'.admitted THEN "handler" ELSE "responded"
    /\ UNCHANGED <<secretKey, req, calls, served>>
    /\ UNCHANGED <<kvVars, bulkVars>>

\* app.use('*', hmacAuth): the middleware either calls next() or responds
HmacAuth ==
    /\ pc = "auth"
    /\ auth' = hmacAuth(req, secretKey, nowMs)
    /\ pc' = IF auth'.admitted THEN "handler" ELSE "responded"
    /\ UNCHANGED <<secretKey, req, calls, served>>
    /\ UNCHANGED <<kvVars, bulkVars>>

\* the route handler runs; it reaches the storage when its validators accept
Handler(valid) ==
    /\ pc = "handler"
    /\ calls' = IF valid THEN StorageCalls(Route(req.method, req.path)) ELSE <<>>
    /\ pc' = "responded"
    /\ UNCHANGED <<secretKey, req, auth, served>>
    /\ UNCHANGED <<kvVars, bulkVars>>

\* the response is sent; the worker is ready for the next request
Respond ==
    /\ pc = "responded"
    /\ pc' = "idle"
    /\ req' = NoRequest
    /\ auth' = NoDecision
    /\ calls' = <<>>
    /\ UNCHANGED <<secretKey, served>>
    /\ UNCHANGED <<kvVars, bulkVars>>

NextAuth ==
    \/ \E m \in Methods, p \in Paths, a \in Authorizations, t \in Timestamps,
          b \in Bodies, k \in SignatureKinds :
            Receive([method |-> m, path |-> p, authorization |-> a, timestamp |-> t,
                     signature |-> SignatureFor(k, m, p, t, b), body |-> b,
                     query |-> <<>>])
    \/ HmacAuth
    \/ \E valid \in BOOLEAN : Handler(valid)
    \/ Respond

SpecAuth == InitAuth /\ [][NextAuth]_vars

----------------------------------------------------------------------------
(* The same requests presented again and again while the clock advances *)

MaxServed == 3              \* answers kept in the history

\* a request of a client that signs as the middleware does
SignedRequest(method, path, timestamp, body, query) ==
    [method |-> method, path |-> path, authorization |-> None, timestamp |-> Some(timestamp),
     signature |-> SignatureFor("signed", method, path, Some(timestamp), body),
     body |-> body, query |-> query]

BearerRequest(method, path, token, body, query) ==
    [method |-> method, path |-> path, authorization |-> Some(BearerPrefix \o token),
     timestamp |-> None, signature |-> None, body |-> body, query |-> query]

\* one signed write whose timestamp leaves the window at the last clock value,
\* one signed read whose timestamp never does, a wrong and a right token
ReplayRequests ==
    {SignedRequest(PUT, PathKvKey(<<"a">>), numberToString(AuthNowMs), <<"{", "}">>, <<>>),
     SignedRequest(GET, PathKvKey(<<"a">>), numberToString(AuthNowMs + 1), <<>>, <<>>),
     BearerRequest(GET, PathKv, <<"s">>, <<>>, <<>>),
     BearerRequest(GET, PathKv, Secret, <<>>, <<>>)}

\* the clock values of the scenario: the edge of the window and one past it
LaterTimes == {AuthNowMs + TimestampWindow, AuthNowMs + TimestampWindow + 1}

\* time passes between two requests
Elapse(t) ==
    /\ pc = "idle"
    /\ nowMs < t
    /\ nowMs' = t
    /\ UNCHANGED <<store, resp, lastWrite, trav>>
    /\ UNCHANGED <<authVars, bulkVars>>

\* the response is sent and noted in the history, with the time of the decision
RespondNoted ==
    /\ pc = "responded"
    /\ Len(served) < MaxServed
    /\ served' = Append(served, [ms |-> nowMs, req |-> req, decision |-> auth])
    /\ pc' = "idle"
    /\ req' = NoRequest
    /\ auth' = NoDecision
    /\ calls' = <<>>
    /\ UNCHANGED secretKey
    /\ UNCHANGED <<kvVars, bulkVars>>

NextReplay ==
    \/ \E r \in ReplayRequests : Receive(r)
    \/ HmacAuth
    \/ \E valid \in BOOLEAN : Handler(valid)
    \/ RespondNoted
    \/ \E t \in LaterTimes : Elapse(t)

SpecReplay == InitAuth /\ [][NextReplay]_vars

----------------------------------------------------------------------------
(* Requests built by the SDK client in HMAC mode, served by the worker *)

SdkKeys == {<<"a">>, <<"a", ":", "b">>, <<"a", " ", "b">>}
SdkCalls ==
    {SdkGet(k, <<"j">>) : k \in SdkKeys}
    \cup {SdkList(p) : p \in {<<>>, <<"a">>}}
    \cup {SdkPut(k, <<"{", "}">>) : k \in SdkKeys}
    \cup {SdkCreate(<<"{", "}">>), SdkBulkWrite(<<"{", "}">>)}
    \cup {SdkDelete(k) : k \in SdkKeys}

\* the client's clock against the server's: equal, at both edges of the
\* window, and one millisecond outside on either side
ClockSkews == {0 - TimestampWindow - 1, 0 - TimestampWindow, 0, TimestampWindow,
               TimestampWindow + 1}

\* the client holds the secret of the worker and sends a request
SdkSends(call, skew, decodes) == Receive(request(Secret, call, nowMs + skew, decodes))

NextSdk ==
    \/ \E call \in SdkCalls, skew \in ClockSkews, decodes \in BOOLEAN :
            SdkSends(call, skew, decodes)
    \/ HmacAuth
    \/ \E valid \in BOOLEAN : Handler(valid)
    \/ Respond

SpecSdk == InitAuth /\ [][NextSdk]_vars

----------------------------------------------------------------------------
(* Requests that carry the signature of another request *)

MaxCompared == 2            \* answers compared with each other

\* the request r, sent with the X-Signature of the signed request b
WithSignatureOf(b, r) == [r EXCEPT !.signature = b.signature]

KeyA == PathKvKey(<<"a">>)
KeyA0 == PathKvKey(<<"a", "0">>)
Stamp == numberToString(AuthNowMs)

SignedPost == SignedRequest(POST, KeyA, Stamp, <<"x">>, <<>>)
SignedDelete == SignedRequest(DELETE, KeyA, <<"0">> \o Stamp, <<>>, <<>>)
SignedList == SignedRequest(GET, PathKv, Stamp, <<>>, <<>>)

\* each signed request, and requests that differ from it in one or two of
\* method, path, X-Timestamp, body and query while carrying its signature
SharedRequests ==
    {SignedPost, SignedDelete, SignedList}
    \cup {WithSignatureOf(SignedPost, r) :
            r \in {SignedRequest(PUT, KeyA, Stamp, <<"x">>, <<>>),
                   SignedRequest(POST, KeyA0, Stamp, <<"x">>, <<>>),
                   SignedRequest(POST, KeyA, Stamp, <<>>, <<>>),
                   SignedRequest(POST, KeyA, Stamp \o <<"x">>, <<>>, <<>>)}}
    \cup {WithSignatureOf(SignedDelete, r) :
            r \in {SignedRequest(DELETE, KeyA, Stamp, <<>>, <<>>),
                   SignedRequest(DELETE, KeyA0, Stamp, <<>>, <<>>),
                   SignedRequest(DELETE, KeyA, <<"0">> \o Stamp, <<"x">>, <<>>)}}
    \cup {WithSignatureOf(SignedList, r) :
            r \in {SignedRequest(GET, PathKv, Stamp, <<>>, <<"p", "=", "a">>),
                   SignedRequest(GET, PathKv, Stamp, <<>>, <<"l", "=", "1">>)}}
    \cup {WithSignatureOf(SignedPost, r) :
            r \in {SignedRequest(GET, PathKv, Stamp, <<>>, <<>>),
                   SignedRequest(GET, PathKv, Stamp, <<>>, <<"p", "=", "a">>)}}

NextShared ==
    \/ \E r \in SharedRequests : Receive(r)
    \/ HmacAuth
    \/ \E valid \in BOOLEAN : Handler(valid)
    \/ Len(served) < MaxCompared /\ RespondNoted

SpecShared == InitAuth /\ [][NextShared]_vars

----------------------------------------------------------------------------
(* POST /kv/bulk: one writeWithRetry task per entry, joined by Promise.all *)

MaxPairs == 3

StringX == [t |-> "string", json |-> "\"x\""]
StringEmpty == [t |-> "string", json |-> "\"\""]
StringDigit == [t |-> "string", json |-> "\"0\""]
EmptyArray == [t |-> "object", json |-> "[]"]
JsTrue == [t |-> "boolean", json |-> "true"]

\* the entries a bulk write may carry: an invalid key, a string value, an object value
BulkPairs ==
    {[key |-> <<".">>, value |-> StringX, expiration |-> None, expirationTtl |-> None,
      metadata |-> None],
     [key |-> <<"a">>, value |-> StringX, expiration |-> None, expirationTtl |-> None,
      metadata |-> None],
     [key |-> <<"a", "b">>, value |-> EmptyObject, expiration |-> None,
      expirationTtl |-> None, metadata |-> None]}

\* entries at the edge of the request schema: an empty key, a TTL below a minute
ShortTtls == {30}
EmptyKeyPair ==
    [key |-> <<>>, value |-> StringX, expiration |-> None, expirationTtl |-> None,
     metadata |-> None]
ShortTtlPairs ==
    {[key |-> <<"a">>, value |-> StringX, expiration |-> None, expirationTtl |-> Some(t),
      metadata |-> None] : t \in ShortTtls}
EdgePairs == {EmptyKeyPair} \cup ShortTtlPairs

RECURSIVE SeqsUpTo(_, _)
SeqsUpTo(S, n) ==
    IF n = 0 THEN {<<>>}
    ELSE LET shorter == SeqsUpTo(S, n - 1)
         IN  shorter \cup {Append(q, x) : q \in shorter, x \in S}

PairLists == SeqsUpTo(BulkPairs, MaxPairs) \ {<<>>}

\* requests that end with one entry at the edge of the schema
EdgePairLists == {Append(q, e) : q \in SeqsUpTo(BulkPairs, MaxPairs - 1), e \in EdgePairs}

KeyMinLength == 1
KeyMaxLength == 512
PairsMinLength == 1
PairsMaxLength == 10000

\* key: v.pipe(v.string(), v.minLength(1), v.maxLength(512))
validKey(key) == Len(key) >= KeyMinLength /\ Len(key) <= KeyMaxLength

\* expirationTtl: v.optional(v.number()); any number passes
bulkWritePairSchema(pair) == validKey(pair.key)

bulkWriteRequestSchema(ps) ==
    /\ Len(ps) >= PairsMinLength
    /\ Len(ps) <= PairsMaxLength
    /\ \A i \in 1..Len(ps) : bulkWritePairSchema(ps[i])

\* vValidator answers 400 itself when the schema rejects the request
ValidationFailed == [success |-> FALSE, total |-> 0, successful |-> 0, failed |-> 0,
                     results |-> <<>>, status |-> 400]

\* String(value) on the values of the model
String(v) ==
    CASE v = StringX -> "x"
      [] v = StringEmpty -> ""
      [] v = StringDigit -> "0"
      [] OTHER -> v.json

\* typeof value === 'object' ? JSON.stringify(value) : String(value)
valueToStore(v) == IF v.t = "object" THEN JSONstringify(v) ELSE String(v)

\* the put options built from an entry; a field left undefined stays unset
pairOptions(pair) ==
    [expiration |-> pair.expiration, expirationTtl |-> pair.expirationTtl,
     metadata |-> pair.metadata]

\* String.prototype.includes
includes(str, sub) ==
    \E i \in 0..(Len(str) - Len(sub)) : SubSeq(str, i + 1, i + Len(sub)) = sub

RateLimitMark == <<"4", "2", "9">>
InvalidKeyError == <<"I", "n", "v", "a", "l", "i", "d", " ", "k", "e", "y">>
MaxRetriesError == <<"M", "a", "x", " ", "r", "e", "t", "r", "i", "e", "s">>

\* what a storage put can do: complete, or throw an Error with a message
RateLimited == <<"K", "V", " ", "4", "2", "9">>
ServerError == <<"K", "V", " ", "5", "0", "0">>
PutErrors == {RateLimited, ServerError}
PutOutcomes == {None} \cup {Some(m) : m \in PutErrors}

maxRetries == 3
InitialDelay == 1000

\* key === '.' || key === '..'
InvalidBulkKey(key) == key = <<".">> \/ key = <<".", ".">>

Succeeded(key) == [key |-> key, success |-> TRUE, error |-> None]
Failed(key, message) == [key |-> key, success |-> FALSE, error |-> Some(message)]

\* writeWithRetry up to its first await
writeWithRetry(pair) ==
    IF InvalidBulkKey(pair.key)
    THEN [phase |-> "done", attempt |-> 0, delay |-> 0,
          outcome |-> Some(Failed(pair.key, InvalidKeyError)), puts |-> 0, waits |-> <<>>,
          errors |-> <<>>]
    ELSE [phase |-> "put", attempt |-> 0, delay |-> InitialDelay,
          outcome |-> None, puts |-> 0, waits |-> <<>>, errors |-> <<>>]

\* the catch block of the retry loop
retryable_anyError(task, message) == task.attempt < maxRetries - 1
retryable(task, message) == includes(message, RateLimitMark) /\ task.attempt < maxRetries - 1

RECURSIVE CountSuccess(_)
CountSuccess(results) ==
    IF results = <<>> THEN 0
    ELSE (IF Head(results).success THEN 1 ELSE 0) + CountSuccess(Tail(results))

\* failureCount === 0 ? 201 : 207
bulkStatus_alwaysCreated(failureCount) == 201
bulkStatus(failureCount) == IF failureCount = 0 THEN 201 ELSE 207

\* the body and status the handler returns for the joined results
bulkResponse(results) ==
    LET successCount == CountSuccess(results)
        failureCount == Len(results) - successCount
    IN  [success |-> failureCount = 0, total |-> Len(results), successful |-> successCount,
         failed |-> failureCount, results |-> results, status |-> bulkStatus(failureCount)]

BulkIdle == pairs = <<>> /\ tasks = <<>> /\ bulkResp = NoBulkResponse

InitBulk ==
    /\ store = [k \in {} |-> 0]
    /\ nowMs \in StartTimes
    /\ resp = NoResponse
    /\ lastWrite = [k \in Keys |-> NoWrite]
    /\ trav = NoTraversal
    /\ secretKey = Some(Secret)
    /\ req = NoRequest
    /\ auth = NoDecision
    /\ calls = <<>>
    /\ pc = "idle"
    /\ served = <<>>
    /\ pairs = <<>>
    /\ tasks = <<>>
    /\ bulkResp = NoBulkResponse

\* the validator rejects the request, or the handler starts:
\* pairs.map(writeWithRetry) runs every task to its first await
BulkWrite(ps) ==
    /\ BulkIdle
    /\ pairs' = ps
    /\ IF bulkWriteRequestSchema(ps)
       THEN /\ tasks' = [i \in 1..Len(ps) |-> writeWithRetry(ps[i])]
            /\ UNCHANGED bulkResp
       ELSE /\ tasks' = <<>>
            /\ bulkResp' = ValidationFailed
    /\ UNCHANGED <<kvVars, authVars>>

\* (mutant) the entries are written one after the other: the put of entry i
\* is issued only when every entry before it has returned
PutSettles_oneAtATime(i, thrown) ==
    /\ \A j \in DOMAIN tasks : j < i => tasks[j].phase = "done"
    /\ i \in DOMAIN tasks
    /\ tasks[i].phase = "put"
    /\ LET pair == pairs[i]
           task == [tasks[i] EXCEPT !.puts = @ + 1,
                                    !.errors = IF thrown = None THEN @
                                               ELSE Append(@, Val(thrown))]
       IN  IF thrown = None
           THEN /\ store' = put(store, pair.key, valueToStore(pair.value),
                                pairOptions(pair), nowMs)
                /\ lastWrite' = [lastWrite EXCEPT ![pair.key] =
                        [kind |-> "put", value |-> valueToStore(pair.value),
                         options |-> pairOptions(pair),
                         ms |-> IF IsSome(pair.expirationTtl) THEN nowMs ELSE 0]]
                /\ tasks' = [tasks EXCEPT ![i] =
                        [task EXCEPT !.phase = "done", !.outcome = Some(Succeeded(pair.key))]]
           ELSE /\ UNCHANGED <<store, lastWrite>>
                /\ tasks' = [tasks EXCEPT ![i] =
                        IF retryable(task, Val(thrown))
                        THEN [task EXCEPT !.phase = "sleep", !.attempt = @ + 1,
                                          !.waits = Append(@, task.delay)]
                        ELSE [task EXCEPT !.phase = "done",
                                          !.outcome = Some(Failed(pair.key, Val(thrown)))]]
    /\ UNCHANGED <<pairs, bulkResp>>
    /\ UNCHANGED <<nowMs, resp, trav>>
    /\ UNCHANGED authVars

\* the put of entry i settles: it stored the value, or it threw
PutSettles(i, thrown) ==
    /\ i \in DOMAIN tasks
    /\ tasks[i].phase = "put"
    /\ LET pair == pairs[i]
           task == [tasks[i] EXCEPT !.puts = @ + 1,
                                    !.errors = IF thrown = None THEN @
                                               ELSE Append(@, Val(thrown))]
       IN  IF thrown = None
           THEN /\ store' = put(store, pair.key, valueToStore(pair.value),
                                pairOptions(pair), nowMs)
                /\ lastWrite' = [lastWrite EXCEPT ![pair.key] =
                        [kind |-> "put", value |-> valueToStore(pair.value),
                         options |-> pairOptions(pair),
                         ms |-> IF IsSome(pair.expirationTtl) THEN nowMs ELSE 0]]
                /\ tasks' = [tasks EXCEPT ![i] =
                        [task EXCEPT !.phase = "done", !.outcome = Some(Succeeded(pair.key))]]
           ELSE /\ UNCHANGED <<store, lastWrite>>
                /\ tasks' = [tasks EXCEPT ![i] =
                        IF retryable(task, Val(thrown))
                        THEN [task EXCEPT !.phase = "sleep", !.attempt = @ + 1,
                                          !.waits = Append(@, task.delay)]
                        ELSE [task EXCEPT !.phase = "done",
                                          !.outcome = Some(Failed(pair.key, Val(thrown)))]]
    /\ UNCHANGED <<pairs, bulkResp>>
    /\ UNCHANGED <<nowMs, resp, trav>>
    /\ UNCHANGED authVars

\* the backoff timer of entry i fires: delay doubles and the loop tests again
TimerFires(i) ==
    /\ i \in DOMAIN tasks
    /\ tasks[i].phase = "sleep"
    /\ tasks' = [tasks EXCEPT ![i] =
            IF tasks[i].attempt < maxRetries
            THEN [@ EXCEPT !.phase = "put", !.delay = 2 * @]
            ELSE [@ EXCEPT !.phase = "done", !.delay = 2 * @,
                           !.outcome = Some(Failed(pairs[i].key, MaxRetriesError))]]
    /\ UNCHANGED <<pairs, bulkResp>>
    /\ UNCHANGED <<kvVars, authVars>>

\* (mutant) the handler answers as soon as one task has returned
BulkRespond_firstDone ==
    /\ tasks # <<>>
    /\ bulkResp = NoBulkResponse
    /\ \E i \in DOMAIN tasks : tasks[i].phase = "done"
    /\ bulkResp' = bulkResponse([i \in DOMAIN tasks |->
                        IF tasks[i].phase = "done" THEN Val(tasks[i].outcome)
                        ELSE Failed(pairs[i].key, MaxRetriesError)])
    /\ UNCHANGED <<pairs, tasks>>
    /\ UNCHANGED <<kvVars, authVars>>

\* Promise.all resolves once every task has returned; the handler answers
BulkRespond ==
    /\ tasks # <<>>
    /\ bulkResp = NoBulkResponse
    /\ \A i \in DOMAIN tasks : tasks[i].phase = "done"
    /\ bulkResp' = bulkResponse([i \in DOMAIN tasks |-> Val(tasks[i].outcome)])
    /\ UNCHANGED <<pairs, tasks>>
    /\ UNCHANGED <<kvVars, authVars>>

\* the response has been sent; the worker serves the next request
BulkDone ==
    /\ bulkResp # NoBulkResponse
    /\ pairs' = <<>>
    /\ tasks' = <<>>
    /\ bulkResp' = NoBulkResponse
    /\ UNCHANGED <<kvVars, authVars>>

NextBulk ==
    \/ \E ps \in PairLists : BulkWrite(ps)
    \/ \E i \in 1..MaxPairs, thrown \in PutOutcomes : PutSettles(i, thrown)
    \/ \E i \in 1..MaxPairs : TimerFires(i)
    \/ BulkRespond
    \/ BulkDone

SpecBulk == InitBulk /\ [][NextBulk]_vars

\* the same handler, serving requests at the edge of the schema
NextBulkEdge ==
    \/ \E ps \in EdgePairLists : BulkWrite(ps)
    \/ \E i \in 1..MaxPairs, thrown \in PutOutcomes : PutSettles(i, thrown)
    \/ \E i \in 1..MaxPairs : TimerFires(i)
    \/ BulkRespond
    \/ BulkDone

SpecBulkEdge == InitBulk /\ [][NextBulkEdge]_vars

----------------------------------------------------------------------------
(* POST /kv/bulk/delete: one delete per listed key, joined by Promise.all *)

MaxDeleteKeys == 3

\* the key lists a bulk delete may carry; a key may be listed twice
DeleteKeyLists == SeqsUpTo(PointKeys, MaxDeleteKeys)

\* keys: v.pipe(v.array(v.string()), v.minLength(1))
bulkDeleteRequestSchema(ks) == Len(ks) >= PairsMinLength

\* what a storage delete can do: complete, or throw an Error with a message
DeleteOutcomes == {None} \cup {Some(m) : m \in PutErrors}

\* keys.map(async (key) => ...) up to its await: the delete of the key is issued
deleteTask(key) ==
    [existed |-> FALSE, phase |-> "delete", outcome |-> None, deletes |-> 0,
     errors |-> <<>>]

\* the body and status the handler returns for the joined results
bulkDeleteResponse_anySuccess(results) ==
    [success |-> CountSuccess(results) > 0, total |-> Len(results),
     successful |-> CountSuccess(results), failed |-> Len(results) - CountSuccess(results),
     results |-> results, status |-> 200]

bulkDeleteResponse(results) ==
    LET successCount == CountSuccess(results)
        failureCount == Len(results) - successCount
    IN  [success |-> failureCount = 0, total |-> Len(results), successful |-> successCount,
         failed |-> failureCount, results |-> results, status |-> 200]

\* the validator rejects the request, or the handler issues every delete
BulkDelete(ks) ==
    /\ BulkIdle
    /\ IF bulkDeleteRequestSchema(ks)
       THEN /\ pairs' = ks
            /\ tasks' = [i \in 1..Len(ks) |-> deleteTask(ks[i])]
            /\ UNCHANGED bulkResp
       ELSE /\ pairs' = ks
            /\ tasks' = <<>>
            /\ bulkResp' = ValidationFailed
    /\ UNCHANGED <<kvVars, authVars>>

\* the delete of listed key i settles: it removed the row, or it threw
DeleteSettles(i, thrown) ==
    /\ i \in DOMAIN tasks
    /\ tasks[i].phase = "delete"
    /\ LET key == pairs[i]
           task == [tasks[i] EXCEPT !.existed = key \in DOMAIN store, !.phase = "done",
                                    !.deletes = @ + 1]
       IN  IF thrown = None
           THEN /\ store' = delete(store, key)
                /\ lastWrite' = [lastWrite EXCEPT ![key] =
                        [kind |-> "delete", value |-> "", options |-> NoOptions, ms |-> 0]]
                /\ tasks' = [tasks EXCEPT ![i] =
                        [task EXCEPT !.outcome = Some(Succeeded(key))]]
           ELSE /\ UNCHANGED <<store, lastWrite>>
                /\ tasks' = [tasks EXCEPT ![i] =
                        [task EXCEPT !.outcome = Some(Failed(key, Val(thrown))),
                                     !.errors = Append(@, Val(thrown))]]
    /\ UNCHANGED <<pairs, bulkResp>>
    /\ UNCHANGED <<nowMs, resp, trav>>
    /\ UNCHANGED authVars

\* Promise.all resolves once every delete has settled; the handler answers
BulkDeleteRespond ==
    /\ tasks # <<>>
    /\ bulkResp = NoBulkResponse
    /\ \A i \in DOMAIN tasks : tasks[i].phase = "done"
    /\ bulkResp' = bulkDeleteResponse([i \in DOMAIN tasks |-> Val(tasks[i].outcome)])
    /\ UNCHANGED <<pairs, tasks>>
    /\ UNCHANGED <<kvVars, authVars>>

\* bulk deletes on a table that other requests keep writing to
NextBulkDelete ==
    \/ \E k \in PointKeys : Put(k, "x", NoOptions)
    \/ \E ks \in DeleteKeyLists : BulkDelete(ks)
    \/ \E i \in 1..MaxDeleteKeys, thrown \in DeleteOutcomes : DeleteSettles(i, thrown)
    \/ BulkDeleteRespond
    \/ BulkDone

SpecBulkDelete == InitBulk /\ [][NextBulkDelete]_vars

----------------------------------------------------------------------------
(* Both bulk routes, with every storage call and every timer completing *)

\* the request being served went to POST /kv/bulk, or to POST /kv/bulk/delete
Writing == tasks # <<>> /\ "attempt" \in DOMAIN tasks[1]
Deleting == tasks # <<>> /\ "deletes" \in DOMAIN tasks[1]

MaxBulkEntries == 2         \* entries of one bulk request when fairness is checked

NextBulkBoth ==
    \/ \E ps \in SeqsUpTo(BulkPairs, MaxBulkEntries) \ {<<>>} : BulkWrite(ps)
    \/ \E i \in 1..MaxBulkEntries, thrown \in PutOutcomes : PutSettles(i, thrown)
    \/ \E i \in 1..MaxBulkEntries : TimerFires(i)
    \/ Writing /\ BulkRespond
    \/ \E ks \in SeqsUpTo(PointKeys, MaxBulkEntries) : BulkDelete(ks)
    \/ \E i \in 1..MaxBulkEntries, thrown \in DeleteOutcomes : DeleteSettles(i, thrown)
    \/ Deleting /\ BulkDeleteRespond
    \/ BulkDone

\* a storage call that was issued returns (it completes or throws), a timer
\* that was set fires, and a handler whose Promise.all has resolved answers
BulkFairness ==
    /\ \A i \in 1..MaxBulkEntries : WF_vars(\E thrown \in PutOutcomes : PutSettles(i, thrown))
    /\ \A i \in 1..MaxBulkEntries : WF_vars(TimerFires(i))
    /\ \A i \in 1..MaxBulkEntries :
            WF_vars(\E thrown \in DeleteOutcomes : DeleteSettles(i, thrown))
    /\ WF_vars(Writing /\ BulkRespond)
    /\ WF_vars(Deleting /\ BulkDeleteRespond)

SpecBulkFair == InitBulk /\ [][NextBulkBoth]_vars /\ BulkFairness

----------------------------------------------------------------------------
(* Bulk writes whose puts race for one key *)

\* bulk writes whose entries all name the same key, each with a value, a
\* metadata and an expiration of its own
SameKeyPairs ==
    {[key |-> <<"a">>, value |-> StringX, expiration |-> None, expirationTtl |-> None,
      metadata |-> Some(EmptyObject)]}
    \cup {[key |-> <<"a">>, value |-> EmptyObject, expiration |-> Some(e),
           expirationTtl |-> None, metadata |-> None] : e \in Expirations}
    \cup {[key |-> <<"a">>, value |-> StringDigit, expiration |-> None,
           expirationTtl |-> Some(t), metadata |-> None] : t \in Ttls}

NextSameKey ==
    \/ \E ps \in SeqsUpTo(SameKeyPairs, MaxBulkEntries) \ {<<>>} : BulkWrite(ps)
    \/ \E i \in 1..MaxBulkEntries, thrown \in PutOutcomes : PutSettles(i, thrown)
    \/ \E i \in 1..MaxBulkEntries : TimerFires(i)
    \/ BulkRespond
    \/ BulkDone

SpecSameKey == InitBulk /\ [][NextSameKey]_vars

----------------------------------------------------------------------------
(* The REST routes on one key: PUT, GET, DELETE /kv/:key, GET /kv/:key/metadata *)
(* and POST /kv/batch                                                       *)

TtlMinValue == 60

\* the JSON values a PUT body may carry: object, array, number, boolean, strings
RestValues == {EmptyObject, EmptyArray, Zero, JsTrue, StringX, StringEmpty, StringDigit}

\* the bodies of PUT /kv/:key: every value without options, an empty string
\* with a TTL, a TTL under the minimum, and an object with metadata
RestBodies ==
    {[value |-> v, expiration |-> None, expirationTtl |-> None, metadata |-> None] :
        v \in RestValues}
    \cup {[value |-> StringEmpty, expiration |-> None, expirationTtl |-> Some(t),
           metadata |-> None] : t \in Ttls}
    \cup {[value |-> StringX, expiration |-> None, expirationTtl |-> Some(t),
           metadata |-> None] : t \in ShortTtls}
    \cup {[value |-> EmptyObject, expiration |-> None, expirationTtl |-> None,
           metadata |-> Some(EmptyObject)]}

\* the :key of a request, and the ?type= of a read (absent, valid, not in the picklist)
RestKeys == PointKeys \cup {<<".">>}
QueryTypes == {None, Some("text"), Some("json"), Some("stream")}
ReadOutcomes == {None, Some(ServerError)}

keyParamSchema(key) == validKey(key)

\* type: v.optional(v.picklist(['text', 'json']))
kvQuerySchema(type) == type = None \/ Val(type) \in {"text", "json"}

\* keys: 1 to 100 strings; type as in kvQuerySchema
batchRequestSchema(keys, type) == Len(keys) >= 1 /\ Len(keys) <= 100 /\ kvQuerySchema(type)

\* expirationTtl: v.optional(v.pipe(v.number(), v.minValue(60)))
putRequestSchema(body) ==
    body.expirationTtl = None \/ Val(body.expirationTtl) >= TtlMinValue

\* const { type = 'text' } = c.req.valid('query')
typeOrDefault(type) == IF type = None THEN "text" ELSE Val(type)

\* JSON.parse of a stored text: the value it denotes, or a SyntaxError
IsJSON(text) == \E v \in RestValues : v.json = text
JSONparseText(text) == CHOOSE v \in RestValues : v.json = text

Answer(status, body) == [status |-> status, body |-> body]
BadRequest == Answer(400, [success |-> FALSE])
KeyNotFound == Answer(404, [error |-> "Key not found"])
SyntaxError == Answer(500, [error |-> "Unexpected token"])
StorageError(m) == Answer(500, [error |-> m])

\* (mutant) the handler tests the value for falsiness instead of null
getKey_falsyIsAbsent(key, type, value) ==
    IF value = None \/ Val(value) = "" THEN KeyNotFound
    ELSE IF type = "json"
         THEN IF IsJSON(Val(value))
              THEN Answer(200, [key |-> key, value |-> JSONparseText(Val(value))])
              ELSE SyntaxError
         ELSE Answer(200, [key |-> key, value |-> Val(value)])

\* GET /kv/:key after the read: 404 on null, the parsed value for type json
\* (JSON.parse throws into the catch), the text otherwise
getKey(key, type, value) ==
    IF value = None THEN KeyNotFound
    ELSE IF type = "json"
         THEN IF IsJSON(Val(value))
              THEN Answer(200, [key |-> key, value |-> JSONparseText(Val(value))])
              ELSE SyntaxError
         ELSE Answer(200, [key |-> key, value |-> Val(value)])

\* GET /kv/:key/metadata after the read
getKeyMetadata(key, type, result) ==
    IF result.value = None THEN KeyNotFound
    ELSE IF type = "json"
         THEN IF IsJSON(Val(result.value))
              THEN Answer(200, [key |-> key, value |-> JSONparseText(Val(result.value)),
                                metadata |-> result.metadata])
              ELSE SyntaxError
         ELSE Answer(200, [key |-> key, value |-> Val(result.value),
                           metadata |-> result.metadata])

\* POST /kv/batch after the read: every entry of the map, parsed for type json
\* unless it is null; one entry that does not parse fails the whole request
batchValues(type, values) ==
    IF type = "json" /\ \E k \in DOMAIN values : IsSome(values[k]) /\ ~IsJSON(Val(values[k]))
    THEN SyntaxError
    ELSE Answer(200, [values |->
            [k \in DOMAIN values |->
                IF type = "json" /\ IsSome(values[k])
                THEN Some(JSONparseText(Val(values[k])))
                ELSE values[k]]])

\* key, ttl as in putRequestSchema, with the key in the body
postRequestSchema(key, body) == validKey(key) /\ putRequestSchema(body)

\* (mutant) the catch does not look for '429' in the message
putKeyAnswer_noRateLimit(key, thrown) ==
    IF thrown = None THEN Answer(201, [key |-> key, success |-> TRUE])
    ELSE StorageError(Val(thrown))

\* the answer of a single-key write once the storage put has settled
putKeyAnswer(key, thrown) ==
    IF thrown = None THEN Answer(201, [key |-> key, success |-> TRUE])
    ELSE IF includes(Val(thrown), RateLimitMark)
         THEN Answer(429, [error |-> "Rate limit exceeded"])
         ELSE StorageError(Val(thrown))

\* the handler shared by PUT /kv/:key and POST /kv once the validators ran:
\* the '.'/'..' check, one storage put, the answer; puts counts the storage puts
writeKey(op, accepted, key, body, thrown) ==
    LET refused == key = <<".">> \/ key = <<".", ".">>
        written == accepted /\ ~refused /\ thrown = None
        options == pairOptions(body)
    IN  /\ resp' = [op |-> op, ms |-> nowMs,
                    arg |-> [key |-> key, body |-> body, thrown |-> thrown],
                    result |-> IF ~accepted THEN BadRequest
                               ELSE IF refused THEN Answer(400, [error |-> "Invalid key"])
                               ELSE putKeyAnswer(key, thrown),
                    puts |-> IF accepted /\ ~refused THEN 1 ELSE 0]
        /\ store' = IF written
                    THEN put(store, key, valueToStore(body.value), options, nowMs)
                    ELSE store
        /\ lastWrite' = IF written
                        THEN [lastWrite EXCEPT ![key] =
                                [kind |-> "put", value |-> valueToStore(body.value),
                                 options |-> options,
                                 ms |-> IF IsSome(options.expirationTtl) THEN nowMs ELSE 0,
                                 sent |-> body.value]]
                        ELSE lastWrite
        /\ Disturb
        /\ UNCHANGED nowMs
        /\ UNCHANGED <<authVars, bulkVars>>

RestPut(key, body, thrown) ==
    writeKey("PUT /kv/:key", keyParamSchema(key) /\ putRequestSchema(body), key, body, thrown)

RestPost(key, body, thrown) ==
    writeKey("POST /kv", postRequestSchema(key, body), key, body, thrown)

RestGet(key, type, thrown) ==
    /\ resp' = [op |-> "GET /kv/:key", ms |-> nowMs,
                arg |-> [key |-> key, type |-> type, thrown |-> thrown],
                result |-> IF ~(keyParamSchema(key) /\ kvQuerySchema(type)) THEN BadRequest
                           ELSE IF IsSome(thrown) THEN StorageError(Val(thrown))
                           ELSE getKey(key, typeOrDefault(type), get(store, key, nowMs))]
    /\ UNCHANGED <<store, nowMs, lastWrite, trav>>
    /\ UNCHANGED <<authVars, bulkVars>>

RestGetMetadata(key, type, thrown) ==
    /\ resp' = [op |-> "GET /kv/:key/metadata", ms |-> nowMs,
                arg |-> [key |-> key, type |-> type, thrown |-> thrown],
                result |-> IF ~(keyParamSchema(key) /\ kvQuerySchema(type)) THEN BadRequest
                           ELSE IF IsSome(thrown) THEN StorageError(Val(thrown))
                           ELSE getKeyMetadata(key, typeOrDefault(type),
                                               getWithMetadata(store, key, nowMs))]
    /\ UNCHANGED <<store, nowMs, lastWrite, trav>>
    /\ UNCHANGED <<authVars, bulkVars>>

RestBatch(keys, type, thrown) ==
    /\ resp' = [op |-> "POST /kv/batch", ms |-> nowMs,
                arg |-> [keys |-> keys, type |-> type, thrown |-> thrown],
                result |-> IF ~batchRequestSchema(keys, type) THEN BadRequest
                           ELSE IF IsSome(thrown) THEN StorageError(Val(thrown))
                           ELSE batchValues(typeOrDefault(type),
                                            batchGet(store, keys, nowMs))]
    /\ UNCHANGED <<store, nowMs, lastWrite, trav>>
    /\ UNCHANGED <<authVars, bulkVars>>

RestDelete(key, thrown) ==
    LET deleted == keyParamSchema(key) /\ thrown = None
    IN  /\ resp' = [op |-> "DELETE /kv/:key", ms |-> nowMs,
                    arg |-> [key |-> key, thrown |-> thrown],
                    result |-> IF ~keyParamSchema(key) THEN BadRequest
                               ELSE IF IsSome(thrown) THEN StorageError(Val(thrown))
                               ELSE Answer(200, [key |-> key, success |-> TRUE])]
        /\ store' = IF deleted THEN delete(store, key) ELSE store
        /\ lastWrite' = IF deleted
                        THEN [lastWrite EXCEPT ![key] =
                                [kind |-> "delete", value |-> "", options |-> NoOptions,
                                 ms |-> 0]]
                        ELSE lastWrite
        /\ Disturb
        /\ UNCHANGED nowMs
        /\ UNCHANGED <<authVars, bulkVars>>

\* the writes of the model: every body on every key with a storage that
\* completes, a failing storage for one body, and the key '.' the handler refuses
PlainBody == [value |-> StringX, expiration |-> None, expirationTtl |-> None,
              metadata |-> None]
RestWrites ==
    {<<k, b, None>> : k \in PointKeys, b \in RestBodies}
    \cup {<<k, PlainBody, Some(m)>> : k \in PointKeys, m \in PutErrors}
    \cup {<<k, PlainBody, e>> : k \in RestKeys \ PointKeys, e \in PutOutcomes}

\* the reads of the model: every ?type= with a storage that completes, and a
\* failing storage for the default type
RestReads(keys) ==
    {<<k, t, None>> : k \in keys, t \in QueryTypes}
    \cup {<<k, None, e>> : k \in keys, e \in ReadOutcomes}

\* requests on single keys and batches, one at a time, and the clock
NextRest ==
    \/ \E w \in RestWrites : RestPut(w[1], w[2], w[3])
    \/ \E w \in RestWrites : RestPost(w[1], w[2], w[3])
    \/ \E r \in RestReads(PointKeys) : RestGet(r[1], r[2], r[3])
    \/ \E r \in RestReads(PointKeys) : RestGetMetadata(r[1], r[2], r[3])
    \/ \E r \in RestReads(KeyLists) : RestBatch(r[1], r[2], r[3])
    \/ \E k \in PointKeys, e \in DeleteOutcomes : RestDelete(k, e)
    \/ \E d \in ListTickSteps : Tick(d)

SpecRest == InitBulk /\ [][NextRest]_vars

\* bodies that give both an absolute expiration and a TTL, and the writes with them
BothBodies ==
    {[value |-> StringX, expiration |-> Some(e), expirationTtl |-> Some(t),
      metadata |-> None] : e \in Expirations, t \in Ttls}
EdgeWrites ==
    {<<k, b, None>> : k \in PointKeys, b \in BothBodies \cup {PlainBody}}

\* single-key writes whose body gives both expirations, reads, and the clock
NextRestEdge ==
    \/ \E w \in EdgeWrites : RestPut(w[1], w[2], w[3])
    \/ \E w \in EdgeWrites : RestPost(w[1], w[2], w[3])
    \/ \E r \in RestReads(PointKeys) : RestGet(r[1], r[2], r[3])
    \/ \E k \in PointKeys, e \in DeleteOutcomes : RestDelete(k, e)
    \/ \E d \in TickSteps : Tick(d)

SpecRestEdge == InitBulk /\ [][NextRestEdge]_vars

----------------------------------------------------------------------------
(* The example counter: getCounter and incrementCounter of the Next.js app *)

MaxCalls == 3               \* incrementCounter calls made
StartCounts == {0, 1}       \* the stored value before the first call, if there is one

CounterKey == <<"a", "p", "p", ":", "c", "o", "u", "n", "t", "e", "r">>
OneHourTtl == 3600
CounterOptions == [expiration |-> None, expirationTtl |-> Some(OneHourTtl), metadata |-> None]

\* String(n) as the server stores the number, and JSON.parse of the stored text
NumberTexts == <<"0", "1", "2", "3", "4", "5", "6">>
numberText(n) == NumberTexts[n + 1]
textNumber(text) == (CHOOSE i \in DOMAIN NumberTexts : NumberTexts[i] = text) - 1

InitCounter ==
    /\ nowMs \in StartTimes
    /\ \/ /\ store = [k \in {} |-> NoWrite]
          /\ resp = [op |-> "counter", ms |-> 0, arg |-> None, result |-> None]
       \/ \E v \in StartCounts :
             /\ store = put([k \in {} |-> NoWrite], CounterKey, numberText(v),
                            CounterOptions, nowMs)
             /\ resp = [op |-> "counter", ms |-> 0, arg |-> Some(v), result |-> None]
    /\ lastWrite = [k \in Keys |-> NoWrite]
    /\ trav = NoTraversal
    /\ secretKey = Some(Secret)
    /\ req = NoRequest
    /\ auth = NoDecision
    /\ calls = <<>>
    /\ pc = "idle"
    /\ served = <<>>
    /\ pairs = <<>>
    /\ tasks = <<>>
    /\ bulkResp = NoBulkResponse

\* a server action incrementCounter is called; it runs up to its first await
IncrementCounter ==
    /\ Len(tasks) < MaxCalls
    /\ tasks' = Append(tasks, [value |-> 0, phase |-> "get",
                               alone |-> \A i \in DOMAIN tasks : tasks[i].phase = "done"])
    /\ UNCHANGED <<pairs, bulkResp>>
    /\ UNCHANGED <<kvVars, authVars>>

\* getCounter: client.get returns the stored number, or fails with 'Key not found'
GetCounter(i) ==
    /\ i \in DOMAIN tasks
    /\ tasks[i].phase = "get"
    /\ LET value == get(store, CounterKey, nowMs)
       IN  tasks' = [tasks EXCEPT ![i] =
                IF value = None THEN [@ EXCEPT !.phase = "init"]
                ELSE [@ EXCEPT !.value = textNumber(Val(value)), !.phase = "put"]]
    /\ UNCHANGED <<pairs, bulkResp>>
    /\ UNCHANGED <<kvVars, authVars>>

\* getCounter, in its catch: the key is created with 0 and 0 is returned
CreateCounter(i) ==
    /\ i \in DOMAIN tasks
    /\ tasks[i].phase = "init"
    /\ store' = put(store, CounterKey, numberText(0), CounterOptions, nowMs)
    /\ tasks' = [tasks EXCEPT ![i] = [@ EXCEPT !.value = 0, !.phase = "put"]]
    /\ UNCHANGED <<pairs, bulkResp>>
    /\ UNCHANGED <<nowMs, resp, lastWrite, trav>>
    /\ UNCHANGED authVars

\* incrementCounter: client.put of currentValue + 1, which is returned
PutCounter(i) ==
    /\ i \in DOMAIN tasks
    /\ tasks[i].phase = "put"
    /\ LET newValue == tasks[i].value + 1
       IN  /\ store' = put(store, CounterKey, numberText(newValue), CounterOptions, nowMs)
           /\ tasks' = [tasks EXCEPT ![i] = [@ EXCEPT !.value = newValue, !.phase = "done"]]
    /\ UNCHANGED <<pairs, bulkResp>>
    /\ UNCHANGED <<nowMs, resp, lastWrite, trav>>
    /\ UNCHANGED authVars

NextCounter ==
    \/ IncrementCounter
    \/ \E i \in 1..MaxCalls : GetCounter(i)
    \/ \E i \in 1..MaxCalls : CreateCounter(i)
    \/ \E i \in 1..MaxCalls : PutCounter(i)

SpecCounter == InitCounter /\ [][NextCounter]_vars

----------------------------------------------------------------------------
(* What the history of writes says a read must return *)

HasNoExpiration(w) == w.options.expiration = None /\ w.options.expirationTtl = None
HasTtl(w) == w.options.expiration = None /\ IsSome(w.options.expirationTtl)

\* the record the last write of key k left, as the contract sees it at time ms
Live(k, ms) ==
    LET w == lastWrite[k]
    IN  /\ w.kind = "put"
        /\ \/ HasNoExpiration(w)
           \/ HasTtl(w) /\ currentTime(ms) < currentTime(w.ms) + Val(w.options.expirationTtl)
           \/ IsSome(w.options.expiration) /\ currentTime(ms) < Val(w.options.expiration)

Expected(k, ms) == IF Live(k, ms) THEN Some(lastWrite[k].value) ELSE None

----------------------------------------------------------------------------
(* Claims on the key-value namespace, checked under SpecKV *)

\* C1: after put(k, v) without expiration, and with no other put or delete of
\* k in between, a get(k) at any later time returns exactly v.
C1_PutThenGet ==
    (resp.op = "get" /\ lastWrite[resp.arg].kind = "put" /\ HasNoExpiration(lastWrite[resp.arg]))
        => resp.result = Some(lastWrite[resp.arg].value)

\* a get, two minutes after the put, returns the empty string that was put
C1_Witness ==
    /\ resp.op = "get"
    /\ lastWrite[resp.arg].kind = "put"
    /\ HasNoExpiration(lastWrite[resp.arg])
    /\ lastWrite[resp.arg].value = ""
    /\ resp.result = Some("")
    /\ currentTime(resp.ms) >= 120

\* C2: delete(key) completes whether or not the key holds a record; from then
\* until the next put of the key the row is gone and get(key) returns absent;
\* deleting twice leaves the table as deleting once does.
C2_DeleteThenAbsent ==
    /\ \A k \in Keys :
        lastWrite[k].kind = "delete" => (k \notin DOMAIN store /\ get(store, k, nowMs) = None)
    /\ (resp.op = "get" /\ lastWrite[resp.arg].kind = "delete") => resp.result = None
    /\ \A k \in Keys : delete(delete(store, k), k) = delete(store, k)

\* a delete of a key that held no record has completed, and it changed nothing
C2_Witness ==
    /\ resp.op = "delete"
    /\ ~resp.existed
    /\ lastWrite[resp.arg].kind = "delete"
    /\ DOMAIN store # {}

\* C3: a record written at second t0 with expirationTtl = T >= 60 is returned
\* by get at every second t with t0 <= t < t0 + T and is absent at every
\* t >= t0 + T, whether or not the row is still stored.
C3_TtlWindow ==
    (/\ resp.op = "get"
     /\ lastWrite[resp.arg].kind = "put"
     /\ HasTtl(lastWrite[resp.arg])
     /\ Val(lastWrite[resp.arg].options.expirationTtl) >= 60)
        => LET w == lastWrite[resp.arg]
               t0 == currentTime(w.ms)
               t == currentTime(resp.ms)
           IN  /\ t0 <= t
               /\ t < t0 + Val(w.options.expirationTtl) => resp.result = Some(w.value)
               /\ t >= t0 + Val(w.options.expirationTtl) => resp.result = None

\* a get at exactly t0 + T finds the key absent while its row is still stored,
\* and another key written with a TTL later on is still visible
C3_Witness ==
    /\ resp.op = "get"
    /\ lastWrite[resp.arg].kind = "put"
    /\ HasTtl(lastWrite[resp.arg])
    /\ currentTime(resp.ms) = currentTime(lastWrite[resp.arg].ms) + Val(lastWrite[resp.arg].options.expirationTtl)
    /\ resp.result = None
    /\ resp.arg \in DOMAIN store
    /\ \E k \in Keys :
        /\ lastWrite[k].kind = "put"
        /\ HasTtl(lastWrite[k])
        /\ currentTime(resp.ms) > currentTime(lastWrite[k].ms)
        /\ get(store, k, resp.ms) = Some(lastWrite[k].value)

\* C4: batch get and batch getWithMetadata return a map whose key set is the
\* set of the requested keys; a key maps to null (value and metadata null in
\* the metadata form) exactly when it has no record or its record is expired,
\* and to the stored value otherwise.
C4_BatchComplete ==
    /\ resp.op = "batchGet" =>
        /\ DOMAIN resp.result = Range(resp.arg)
        /\ \A k \in Range(resp.arg) : resp.result[k] = Expected(k, resp.ms)
    /\ resp.op = "batchGetWithMetadata" =>
        /\ DOMAIN resp.result = Range(resp.arg)
        /\ \A k \in Range(resp.arg) :
            /\ resp.result[k].value = Expected(k, resp.ms)
            /\ ~Live(k, resp.ms) => resp.result[k].metadata = None

\* a batch get of a list with a repeated key returned one key with its value,
\* one expired key as null, and a batch with a key never written returned null
C4_Witness ==
    /\ resp.op = "batchGet"
    /\ Len(resp.arg) = 3
    /\ Cardinality(DOMAIN resp.result) = 2
    /\ \E k \in DOMAIN resp.result : resp.result[k] # None
    /\ \E k \in DOMAIN resp.result : resp.result[k] = None /\ k \in DOMAIN store

----------------------------------------------------------------------------
(* Claims on list, checked under SpecList *)

\* C5: on a table that is not modified during the traversal, list without a
\* cursor followed by list with each returned cursor (same prefix and limit)
\* ends with list_complete = true, and the pages' keys, concatenated, are
\* exactly the ascending list of the unexpired keys that start with the prefix.
C5_PaginationExact ==
    (trav.state = "done" /\ trav.quiet)
        => trav.names = OrderBy({k \in Keys : Live(k, nowMs) /\ StartsWith(k, trav.prefix)})

----------------------------------------------------------------------------
(* Claims on the authentication middleware, checked under SpecAuth *)

Decided == pc \in {"handler", "responded"}
Gated(r) == r.path \notin {PathIndex, PathDocs, PathOpenapi}
Configured == secretKey # None /\ Val(secretKey) # <<>>
BearerMode(r) == IsSome(r.authorization) /\ StartsWith(Val(r.authorization), BearerPrefix)

\* signature mode: gated path, secret configured, no bearer token, both headers sent
SignatureMode(r) ==
    /\ Gated(r)
    /\ Configured
    /\ ~BearerMode(r)
    /\ IsSome(r.signature)
    /\ IsSome(r.timestamp) /\ Val(r.timestamp) # <<>>

\* the header is a decimal integer within 300000 ms of the server's clock
TimestampInWindow(ts) ==
    /\ ts # <<>>
    /\ \A i \in 1..Len(ts) : ts[i] \in {"0", "1", "2", "3", "4", "5", "6", "7", "8", "9"}
    /\ digitsValue(ts) >= nowMs - 300000
    /\ digitsValue(ts) <= nowMs + 300000

\* X-Signature is the HMAC of METHOD ++ PATH ++ TIMESTAMP ++ BODY under the secret
SignatureIsCorrect(r) ==
    Val(r.signature).digest =
        [key |-> Val(secretKey),
         message |-> r.method \o r.path \o Val(r.timestamp)
                     \o (IF r.method \in {GET, DELETE} THEN <<>> ELSE r.body)]

\* C6: in signature mode a request whose X-Timestamp is not an integer within
\* +/-300000 ms of the server's time is never admitted: it is rejected with
\* 401 'timestamp expired' whether or not its signature is correct.
C6_StaleTimestampRejected ==
    (Decided /\ SignatureMode(req) /\ ~TimestampInWindow(Val(req.timestamp)))
        => (~auth.admitted /\ auth.status = 401 /\ auth.error = "Request timestamp expired")

\* C7: in signature mode with an in-window timestamp a request is admitted
\* exactly when X-Signature equals, ignoring hex case, the HMAC-SHA256 of
\* METHOD ++ PATH ++ TIMESTAMP ++ BODY (BODY empty for GET and DELETE); any
\* other request is rejected with 401 'invalid signature'.
C7_SignatureDecides ==
    (Decided /\ SignatureMode(req) /\ TimestampInWindow(Val(req.timestamp)))
        => /\ auth.admitted <=> SignatureIsCorrect(req)
           /\ ~auth.admitted => (auth.status = 401 /\ auth.error = "Invalid HMAC signature")

\* an upper-case signature over a DELETE that carries a body was admitted at the
\* edge of the window
C7_Witness ==
    /\ pc = "responded"
    /\ SignatureMode(req)
    /\ TimestampInWindow(Val(req.timestamp))
    /\ digitsValue(Val(req.timestamp)) = nowMs - 300000
    /\ req.method = DELETE
    /\ req.body # <<>>
    /\ Val(req.signature).upper
    /\ auth.admitted

\* C8: with a secret configured, a request to a gated path with the header
\* 'Authorization: Bearer <token>' is admitted exactly when the token equals
\* the secret in full; any other token, a proper prefix or an extension of the
\* secret included, is rejected with 401 'invalid token'.
C8_BearerDecides ==
    (Decided /\ Gated(req) /\ Configured /\ BearerMode(req))
        => LET token == SubSeq(Val(req.authorization), 8, Len(Val(req.authorization)))
           IN  /\ auth.admitted <=> token = Val(secretKey)
               /\ ~auth.admitted =>
                    (auth.status = 401 /\ auth.error = "Invalid authentication token")

\* a token that extends the secret was rejected although a correct signature came along
C8_Witness ==
    /\ pc = "responded"
    /\ Gated(req)
    /\ Configured
    /\ req.authorization = Some(BearerPrefix \o Val(secretKey) \o <<"x">>)
    /\ IsSome(req.signature)
    /\ IsSome(req.timestamp)
    /\ SignatureIsCorrect(req)
    /\ ~auth.admitted
    /\ auth.status = 401

HasCredentials(r) ==
    \/ BearerMode(r) /\ SubSeq(Val(r.authorization), 8, Len(Val(r.authorization))) = Val(secretKey)
    \/ IsSome(r.signature) /\ IsSome(r.timestamp) /\ SignatureIsCorrect(r)

\* C9: no storage operation is executed for a request the middleware has not
\* admitted; only requests to /api/v1/, /api/v1/docs and /api/v1/openapi pass
\* without credentials, and none of those paths performs a storage operation.
C9_NoStorageWithoutAuth ==
    /\ calls # <<>> => (auth.admitted /\ Configured /\ HasCredentials(req))
    /\ (Decided /\ auth.admitted /\ ~(Configured /\ HasCredentials(req))) => ~Gated(req)
    /\ ~Gated(req) => calls = <<>>

\* a PUT to a key without any credentials was answered 401 and no storage call was made
C9_Witness ==
    /\ pc = "responded"
    /\ req.method = PUT
    /\ StorageCalls(Route(req.method, req.path)) = <<"put">>
    /\ req.authorization = None
    /\ req.signature = None
    /\ ~auth.admitted
    /\ auth.status = 401
    /\ calls = <<>>

----------------------------------------------------------------------------
(* Claims on the bulk write, checked under SpecBulk *)

Responded == bulkResp # NoBulkResponse

RefusedKeys == {<<".">>, <<".", ".">>, <<>>}

\* C11: in a bulk write an entry whose key is '.', '..' or empty is reported
\* as a failed entry and no storage put is issued for it, while every other
\* entry is still attempted and stays stored once its put succeeded.
C11_InvalidKeyIsEntryFailure ==
    Responded =>
        /\ Len(bulkResp.results) = Len(pairs)
        /\ \A i \in 1..Len(pairs) :
            IF pairs[i].key \in RefusedKeys
            THEN /\ ~bulkResp.results[i].success
                 /\ tasks[i].puts = 0
            ELSE /\ tasks[i].puts >= 1
                 /\ bulkResp.results[i].success => pairs[i].key \in DOMAIN store

\* C12: each entry of a bulk write issues at most 3 storage puts; a further
\* put follows only a failure whose message contains '429'; any other failure
\* ends the entry after that put with the error as its result; a '429'
\* failure of the third put ends the entry with that error as its result.
C12_RetryPolicy ==
    \A i \in DOMAIN tasks :
        LET task == tasks[i]
            n == Len(task.errors)
        IN  /\ task.puts <= 3
            /\ task.puts \in {n, n + 1}
            /\ \A j \in 1..n : j < task.puts => includes(task.errors[j], RateLimitMark)
            /\ (n >= 1 /\ ~includes(task.errors[n], RateLimitMark)) =>
                    /\ task.phase = "done"
                    /\ task.puts = n
                    /\ task.outcome = Some(Failed(pairs[i].key, task.errors[n]))
            /\ (n = 3 /\ includes(task.errors[n], RateLimitMark)) =>
                    /\ task.phase = "done"
                    /\ task.puts = 3
                    /\ task.outcome = Some(Failed(pairs[i].key, task.errors[n]))
            /\ (task.phase = "done" /\ task.puts > n) => task.outcome = Some(Succeeded(pairs[i].key))

\* an entry gave up after three rate-limited puts, another after one other error
C12_Witness ==
    /\ \E i \in DOMAIN tasks :
        /\ tasks[i].puts = 3
        /\ tasks[i].errors = <<RateLimited, RateLimited, RateLimited>>
        /\ tasks[i].outcome = Some(Failed(pairs[i].key, RateLimited))
    /\ \E i \in DOMAIN tasks :
        /\ tasks[i].puts = 1
        /\ tasks[i].outcome = Some(Failed(pairs[i].key, ServerError))

\* C13: an entry that is rate-limited on every put has waited 1000 ms, then
\* 2000 ms, then 4000 ms when its final error is recorded.
C13_BackoffThreeWaits ==
    \A i \in DOMAIN tasks :
        (/\ tasks[i].phase = "done"
         /\ tasks[i].puts >= 1
         /\ tasks[i].outcome # Some(Succeeded(pairs[i].key))
         /\ \A j \in 1..Len(tasks[i].errors) : includes(tasks[i].errors[j], RateLimitMark))
            => tasks[i].waits = <<1000, 2000, 4000>>

\* C14 (bulk path): an entry whose expirationTtl is below 60 makes the
\* request fail validation with 400 and no storage put is issued for it.
C14_ShortTtlRejected ==
    Responded =>
        \A i \in 1..Len(pairs) :
            (IsSome(pairs[i].expirationTtl) /\ Val(pairs[i].expirationTtl) < 60)
                => /\ bulkResp.status = 400
                   /\ tasks = <<>>

----------------------------------------------------------------------------
(* Further claims on the key-value namespace, checked under SpecKV *)

\* the row the contract expects of put(value, options) at time ms
ExpectedRow(w) ==
    [value |-> w.value,
     expiration |-> IF IsSome(w.options.expiration) THEN w.options.expiration
                    ELSE IF IsSome(w.options.expirationTtl)
                         THEN Some(currentTime(w.ms) + Val(w.options.expirationTtl))
                         ELSE None,
     metadata |-> IF IsSome(w.options.metadata)
                  THEN Some(JSONstringify(Val(w.options.metadata)))
                  ELSE None]

\* C15: after put(k, v2, o2) on a key that already holds a record, the
\* record's value, metadata and expiration are exactly those given by the
\* second put: no metadata unless o2 carries one, no expiration unless o2
\* carries one.
C15_OverwriteInFull ==
    (resp.op = "put" /\ resp.existed /\ nowMs = resp.ms)
        => store[resp.arg] = ExpectedRow(lastWrite[resp.arg])

----------------------------------------------------------------------------
(* Further claims on list, checked under SpecList *)

\* the last response is a list call, and the names of its page
Listed == resp.op = "list"
PageNames == [i \in 1..Len(resp.result.keys) |-> resp.result.keys[i].name]

\* the unexpired keys that start with the prefix, ascending, at the time of the call
Matching(prefix) == OrderBy({k \in Keys : Live(k, resp.ms) /\ StartsWith(k, prefix)})

\* the filter of the call selected exactly the keys that start with its prefix
FilterExact ==
    \A k \in DOMAIN store :
        Like(k, Val(resp.arg.prefix) \o <<"%">>) <=> StartsWith(k, Val(resp.arg.prefix))

C17_PrefixExact ==
    Listed =>
        /\ \A i \in 1..Len(PageNames) : StartsWith(PageNames[i], Val(resp.arg.prefix))
        /\ (resp.arg.prefix = Some(<<>>) /\ resp.arg.limit = None /\ resp.arg.cursor = None)
                => PageNames = Matching(<<>>)

----------------------------------------------------------------------------
(* Claims on the bulk delete, checked under SpecBulkDelete *)

\* C18: a bulk delete of N keys issues exactly one storage delete per listed
\* key, with no retry, answers only when all of them have settled, and
\* reports one result per key, total = N, successful + failed = N and
\* success = true if and only if failed = 0; a delete that did not throw
\* counts as successful whether or not the key held a record.
C18_BulkDeleteAggregation ==
    /\ \A i \in DOMAIN tasks : tasks[i].deletes <= 1
    /\ (Responded /\ bulkDeleteRequestSchema(pairs)) =>
        LET N == Len(pairs)
        IN  /\ Len(tasks) = N
            /\ \A i \in 1..N : tasks[i].phase = "done" /\ tasks[i].deletes = 1
            /\ Len(bulkResp.results) = N
            /\ \A i \in 1..N :
                /\ bulkResp.results[i].key = pairs[i]
                /\ bulkResp.results[i].success <=> (tasks[i].errors = <<>>)
            /\ bulkResp.total = N
            /\ bulkResp.successful =
                    Cardinality({i \in 1..N : bulkResp.results[i].success})
            /\ bulkResp.successful + bulkResp.failed = N
            /\ bulkResp.success <=> (bulkResp.failed = 0)

\* three keys were listed: one held a record, one held none and counted as
\* successful, and the delete of one threw, so success = false
C18_Witness ==
    /\ Responded
    /\ Len(pairs) = 3
    /\ \E i \in 1..3 : tasks[i].existed /\ bulkResp.results[i].success
    /\ \E i \in 1..3 : ~tasks[i].existed /\ bulkResp.results[i].success
    /\ \E i \in 1..3 : bulkResp.results[i].error = Some(RateLimited)
    /\ bulkResp.successful = 2
    /\ bulkResp.failed = 1
    /\ ~bulkResp.success

----------------------------------------------------------------------------
(* Claims on the REST routes on one key, checked under SpecRest *)

\* the request answered last reached its handler and the storage did not fail
RestRead == resp.op \in {"GET /kv/:key", "GET /kv/:key/metadata"}
RestServed == resp.arg.thrown = None
NonStrings == {EmptyObject, EmptyArray, Zero, JsTrue}

\* C19: over the REST routes, for any JSON value v (object, array, number,
\* boolean or string), PUT /kv/k with value v answers 201, a following
\* GET /kv/k?type=json answers 200 with a value equal to v, a following
\* DELETE /kv/k answers 200, and a GET after that answers 404.
C19_RestRoundTrip ==
    /\ (resp.op = "PUT /kv/:key" /\ RestServed /\ resp.arg.key \in PointKeys
            /\ putRequestSchema(resp.arg.body))
        => resp.result.status = 201
    /\ (resp.op = "GET /kv/:key" /\ RestServed /\ resp.arg.type = Some("json")
            /\ Live(resp.arg.key, resp.ms))
        => /\ resp.result.status = 200
           /\ resp.result.body.value = lastWrite[resp.arg.key].sent
    /\ (resp.op = "DELETE /kv/:key" /\ RestServed) => resp.result.status = 200
    /\ (resp.op = "GET /kv/:key" /\ RestServed /\ kvQuerySchema(resp.arg.type)
            /\ lastWrite[resp.arg.key].kind = "delete")
        => resp.result.status = 404

\* the round trip of C19 for the values that are not strings
C19_NonStringRoundTrip ==
    (resp.op = "GET /kv/:key" /\ RestServed /\ resp.arg.type = Some("json")
        /\ Live(resp.arg.key, resp.ms) /\ lastWrite[resp.arg.key].sent \in NonStrings)
    => /\ resp.result.status = 200
       /\ resp.result.body.value = lastWrite[resp.arg.key].sent

\* the last write of k stored the empty string and the record is not expired at ms
HoldsEmpty(k, ms) == Live(k, ms) /\ lastWrite[k].value = ""

----------------------------------------------------------------------------
(* Further claims on the authentication middleware, checked under SpecAuth *)

\* C21: when the server has no secret configured, no request to a path outside
\* the allowlist is admitted, and a request that carries a bearer token or a
\* signature is answered 500 'Server authentication not configured', not 401.
C21_UnconfiguredIs500 ==
    (Decided /\ ~Configured /\ Gated(req))
        => /\ ~auth.admitted
           /\ calls = <<>>
           /\ (BearerMode(req) \/ IsSome(req.signature))
                => /\ auth.status = 500
                   /\ auth.error = "Server authentication not configured"

\* without a secret, a request with the bearer token the clients were given
\* and one with only a signature over its body were both answered 500
C21_Witness ==
    /\ pc = "responded"
    /\ secretKey = None
    /\ Gated(req)
    /\ \/ req.authorization = Some(BearerPrefix \o Secret) /\ req.signature = None
       \/ req.authorization = None /\ IsSome(req.signature) /\ req.method = POST
    /\ ~auth.admitted
    /\ auth.status = 500
    /\ calls = <<>>

----------------------------------------------------------------------------
(* Further claims on the REST routes on one key, checked under SpecRest *)

\* the request answered last is a single-key write
RestWrite == resp.op \in {"PUT /kv/:key", "POST /kv"}
IsRateLimit(thrown) == IsSome(thrown) /\ includes(Val(thrown), RateLimitMark)

\* C22: a single-key write (POST /kv or PUT /kv/:key) that reaches the storage
\* issues exactly one storage put: when the put fails with a rate-limit error
\* the answer is 429 and nothing is retried, when it fails otherwise the
\* answer is 500, and when it completes the answer is 201.
C22_SingleWriteOnePut ==
    RestWrite =>
        /\ resp.result.status = 400 <=> resp.puts = 0
        /\ (resp.arg.key \in PointKeys /\ putRequestSchema(resp.arg.body))
            => /\ resp.puts = 1
               /\ resp.result.status =
                    IF resp.arg.thrown = None THEN 201
                    ELSE IF IsRateLimit(resp.arg.thrown) THEN 429 ELSE 500

\* a POST /kv of a key that holds a record met a rate-limited storage: one put,
\* answer 429, and the record is the one written before
C22_Witness ==
    /\ resp.op = "POST /kv"
    /\ IsRateLimit(resp.arg.thrown)
    /\ resp.puts = 1
    /\ resp.result.status = 429
    /\ resp.arg.key \in DOMAIN store
    /\ store[resp.arg.key].value # valueToStore(resp.arg.body.value)

----------------------------------------------------------------------------
(* Claims on cursors, checked under SpecCursor *)

\* C23: for every offset n >= 0, parseCursor of createCursor(n) yields offset
\* n; and a list call given the cursor of the previous page (same prefix and
\* limit L) reads from exactly the previous offset + L: the k-th call of a
\* listing reads at offset (k - 1) * L and returns the rows from there on.
C23_CursorRoundTrip ==
    /\ resp.op = "parseCursor" => resp.result = [offset |-> resp.arg.offset]
    /\ (Listed /\ IsSome(resp.arg.limit)) =>
        LET L == Val(resp.arg.limit)
            o == (trav.pages - 1) * L
            rows == OrderBy(ListMatches(store, Val(resp.arg.prefix), resp.ms))
        IN  /\ parseCursor(resp.arg.cursor).offset = o
            /\ PageNames = SubSeq(rows, o + 1, Min(o + L, Len(rows)))
            /\ IsSome(resp.result.cursor)
                => parseCursor(resp.result.cursor).offset = o + L

\* the third call of a listing with limit 1 was given the cursor made for
\* offset 2, read it back as offset 2 and returned the third key
C23_Witness ==
    /\ Listed
    /\ trav.pages = 3
    /\ resp.arg.limit = Some(1)
    /\ resp.arg.cursor = Some(createCursor(2))
    /\ parseCursor(resp.arg.cursor).offset = 2
    /\ PageNames = <<OrderBy(DOMAIN store)[3]>>

\* a cursor for an offset of two digits, which btoa pads, was read back
C23_PaddedCursorReadBack ==
    /\ resp.op = "parseCursor"
    /\ resp.arg.offset = 10
    /\ resp.arg.cursor[Len(resp.arg.cursor)] = "="
    /\ resp.result.offset = 10

----------------------------------------------------------------------------
(* Claims on the agreement of the reads, checked under SpecKV *)

\* a row of key k exists with expiration null or expiration > t
RowVisible(k, t) ==
    k \in DOMAIN store /\ (store[k].expiration = None \/ Val(store[k].expiration) > t)

\* the names list returns without prefix, limit and cursor
ListedNames(ms) ==
    LET r == list(store, ListOptions(None, None, None), ms)
    IN  {r.keys[i].name : i \in 1..Len(r.keys)}

\* C24: at every time t and for every key, get, batch get, getWithMetadata
\* (single and batch) and list agree on visibility: each of them shows the key
\* if and only if a row exists with expiration null or expiration > t.
C24_ReadsAgree ==
    \A k \in Keys :
        LET t == currentTime(nowMs)
        IN  /\ IsSome(get(store, k, nowMs)) <=> RowVisible(k, t)
            /\ IsSome(getWithMetadata(store, k, nowMs).value) <=> RowVisible(k, t)
            /\ \A ks \in KeyLists : k \in Range(ks) =>
                /\ IsSome(batchGet(store, ks, nowMs)[k]) <=> RowVisible(k, t)
                /\ IsSome(batchGetWithMetadata(store, ks, nowMs)[k].value) <=> RowVisible(k, t)
            /\ k \in ListedNames(nowMs) <=> RowVisible(k, t)

\* in the very second a row expires, while another row is still visible, the
\* expired row is in the table and no read shows it
C24_Witness ==
    \E k \in DOMAIN store, j \in DOMAIN store :
        /\ store[k].expiration = Some(currentTime(nowMs))
        /\ ~RowVisible(k, currentTime(nowMs))
        /\ get(store, k, nowMs) = None
        /\ k \notin ListedNames(nowMs)
        /\ RowVisible(j, currentTime(nowMs))
        /\ j \in ListedNames(nowMs)

----------------------------------------------------------------------------
(* Claims on absolute expirations, checked under SpecExpiry *)

\* the last write of k was a put with the absolute expiration E
WrittenUntil(k, E) ==
    lastWrite[k].kind = "put" /\ lastWrite[k].options.expiration = Some(E)

\* C25: a record written with an absolute expiration E (epoch seconds, any
\* E >= 0, zero and values already in the past included) is visible to reads
\* exactly at the times t < E and absent at every time t >= E.
C25_AbsoluteExpiration ==
    \A k \in PointKeys, E \in EdgeExpirations :
        WrittenUntil(k, E) =>
            /\ IsSome(get(store, k, nowMs)) <=> currentTime(nowMs) < E
            /\ IsSome(getWithMetadata(store, k, nowMs).value) <=> currentTime(nowMs) < E

\* the same for the expirations that are not zero
C25_PositiveExpiration ==
    \A k \in PointKeys, E \in EdgeExpirations \ {0} :
        WrittenUntil(k, E) =>
            /\ IsSome(get(store, k, nowMs)) <=> currentTime(nowMs) < E
            /\ IsSome(getWithMetadata(store, k, nowMs).value) <=> currentTime(nowMs) < E

\* a record was written with an expiration that had passed and is absent
C25_PastExpirationAbsent ==
    \E k \in PointKeys :
        /\ WrittenUntil(k, 30)
        /\ resp.op = "put" /\ resp.arg = k /\ currentTime(resp.ms) > 30
        /\ get(store, k, nowMs) = None

----------------------------------------------------------------------------
(* Claims on writes that give two expirations, checked under SpecRestEdge *)

GivesBoth(o) == IsSome(o.expiration) /\ IsSome(o.expirationTtl)

\* C26: a put never takes effect with both an absolute expiration and a TTL:
\* a write that gives both `expiration` and `expirationTtl` is rejected and
\* stores nothing.
C26_BothExpirationsRejected ==
    /\ \A k \in PointKeys : lastWrite[k].kind = "put" => ~GivesBoth(lastWrite[k].options)
    /\ (RestWrite /\ GivesBoth(resp.arg.body))
        => /\ resp.result.status = 400
           /\ resp.puts = 0

----------------------------------------------------------------------------
(* Claims on cleanupExpired, checked under SpecKV *)

\* what every read of the model returns from table s at time ms
AllReads(s, ms) ==
    [single |-> [k \in Keys |-> getWithMetadata(s, k, ms)],
     batch |-> [ks \in KeyLists |-> batchGetWithMetadata(s, ks, ms)],
     listed |-> [p \in Prefixes |-> list(s, ListOptions(Some(p), None, None), ms)]]

\* C27: a run of cleanupExpired, wherever it falls between puts, deletes and
\* reads, changes the result of no read: it deletes exactly the rows whose
\* expiration is <= now, which no read shows, leaves every other row as it
\* was, and returns the number of rows it deleted.
C27_CleanupInvisible ==
    [][CleanupExpired =>
        /\ AllReads(store', nowMs) = AllReads(store, nowMs)
        /\ \A k \in Keys : get(store', k, nowMs) = get(store, k, nowMs)
        /\ DOMAIN store \ DOMAIN store' =
                {k \in DOMAIN store : store[k].expiration # None
                                      /\ Val(store[k].expiration) <= currentTime(nowMs)}
        /\ DOMAIN store' \subseteq DOMAIN store
        /\ \A k \in DOMAIN store' : store'[k] = store[k]
        /\ resp'.result = Cardinality(DOMAIN store \ DOMAIN store')]_vars

\* a cleanup deleted one expired row and left a row that expires later
C27_Witness ==
    /\ resp.op = "cleanupExpired"
    /\ resp.result = 1
    /\ nowMs = resp.ms
    /\ \E k \in DOMAIN store : store[k].expiration # None
    /\ \E k \in Keys : lastWrite[k].kind = "put" /\ k \notin DOMAIN store

----------------------------------------------------------------------------
(* Claims on both bulk routes, checked under SpecBulkFair *)

AllTerminal == \A i \in DOMAIN tasks : tasks[i].phase = "done" /\ IsSome(tasks[i].outcome)

\* C29: a bulk write or bulk delete produces its response only after every
\* entry has reached a terminal state (success or final failure); and when
\* every storage call returns and every timer fires, every entry of a request
\* being served reaches a terminal state and the response is produced.
C29_RespondsAfterAllAndEventually ==
    /\ [](Responded => AllTerminal)
    /\ (tasks # <<>>) ~> (AllTerminal /\ Responded)

\* a bulk write answered after one entry used both of its backoff waits while
\* another entry succeeded at once
C29_Witness ==
    /\ Responded
    /\ Writing
    /\ \E i \in DOMAIN tasks : tasks[i].waits = <<1000, 2000>> /\ tasks[i].puts = 3
    /\ \E i \in DOMAIN tasks : tasks[i].puts = 1 /\ Val(tasks[i].outcome).success
    /\ bulkResp.total = Len(pairs)

\* a bulk delete answered after a delete that threw and one that completed
C29_DeleteAnswered ==
    /\ Responded
    /\ Deleting
    /\ bulkResp.failed = 1
    /\ bulkResp.successful = 1

----------------------------------------------------------------------------
(* Further claims on the bulk write, checked under SpecBulk *)

\* C30: while one entry of a bulk write waits in its retry backoff, every
\* other entry can take its next step: an entry whose put is outstanding can
\* have it settle (and so reach its terminal state), and an entry that waits
\* itself can have its own timer fire; no entry's step waits for another's wait.
C30_BackoffBlocksNoSibling ==
    \A i \in DOMAIN tasks, j \in DOMAIN tasks :
        (tasks[i].phase = "sleep" /\ j # i) =>
            /\ tasks[j].phase = "put" => ENABLED PutSettles(j, None)
            /\ tasks[j].phase = "sleep" => ENABLED TimerFires(j)

\* the first entry is in its first backoff wait while the second entry has
\* gone through two waits and three puts and succeeded
C30_Witness ==
    /\ Len(tasks) >= 2
    /\ tasks[1].phase = "sleep"
    /\ tasks[1].waits = <<1000>>
    /\ tasks[2].phase = "done"
    /\ tasks[2].waits = <<1000, 2000>>
    /\ tasks[2].puts = 3
    /\ Val(tasks[2].outcome).success
    /\ bulkResp = NoBulkResponse

----------------------------------------------------------------------------
(* Claims on the history of answered requests, checked under SpecReplay *)

\* what is asked of the entry: signature mode, correct signature, timestamp in
\* the window at the time of the decision
CorrectlySigned(e) ==
    /\ SignatureMode(e.req)
    /\ SignatureIsCorrect(e.req)
    /\ LET ts == Val(e.req.timestamp)
       IN  /\ \A i \in 1..Len(ts) : IsDigit(ts[i])
           /\ Abs(e.ms - digitsValue(ts)) <= TimestampWindow

C31_RejectedOutsideWindow ==
    /\ Len(served) = 2
    /\ served[1].req = served[2].req
    /\ served[1].decision.admitted
    /\ ~served[2].decision.admitted
    /\ served[2].decision.error = "Request timestamp expired"

----------------------------------------------------------------------------
(* Claims on puts that race for one key, checked under SpecSameKey *)

\* the record a put of this entry stores when it runs alone
RecordOf(pair) ==
    put([k \in {} |-> 0], pair.key, valueToStore(pair.value), pairOptions(pair),
        nowMs)[pair.key]

\* the entries of the request whose put was executed by the storage
Landed == {i \in DOMAIN tasks : tasks[i].phase = "done" /\ Val(tasks[i].outcome).success}

\* C32: when the puts of two entries of one bulk write name the same key, the
\* record stored afterwards is the record of one of them in full (value,
\* metadata and expiration of the same put), never a mix; once a put of the
\* request was executed, the record is that of an executed put of the request.
C32_NoMixedRecord ==
    \A k \in DOMAIN store :
        /\ \E p \in SameKeyPairs : p.key = k /\ store[k] = RecordOf(p)
        /\ (\E i \in Landed : pairs[i].key = k)
              => \E i \in Landed : pairs[i].key = k /\ store[k] = RecordOf(pairs[i])

\* both entries were written, the second one first: the record is the first
\* entry's, with its metadata and without the expiration of the second
C32_Witness ==
    /\ Responded
    /\ Len(pairs) = 2
    /\ Landed = {1, 2}
    /\ pairs[1].key = pairs[2].key
    /\ pairs[1].metadata # None /\ pairs[2].expiration # None
    /\ store[pairs[1].key] = RecordOf(pairs[1])
    /\ store[pairs[1].key] # RecordOf(pairs[2])
    /\ tasks[1].puts > 1 /\ tasks[2].puts = 1

----------------------------------------------------------------------------
(* Claims on the SDK client against the middleware, checked under SpecSdk *)

\* the server holds the client's secret and its clock is within 300000 ms of
\* the timestamp the client sent
SameSecretAndClock ==
    /\ secretKey = Some(Secret)
    /\ Abs(nowMs - digitsValue(Val(req.timestamp))) <= TimestampWindow

\* C33: every request the SDK client builds in HMAC mode is admitted by the
\* middleware when both hold the same secret and the server's clock is within
\* 300000 ms of the client's timestamp.
C33_SdkRequestsAdmitted ==
    (Decided /\ SameSecretAndClock) => auth.admitted

\* the same for the requests whose path the router hands on as the client
\* signed it: no escape in it, or a router that does not decode
C33_SamePathAdmitted ==
    (Decided /\ SameSecretAndClock /\ \E call \in SdkCalls : req.path = pathname(call.path))
        => auth.admitted

\* a put of a key with a colon, sent at the edge of the window, was admitted
C33_EscapedKeyAdmitted ==
    /\ pc = "responded"
    /\ SameSecretAndClock
    /\ req.method = PUT
    /\ req.path = PathKvKey(<<"a", "%", "3", "A", "b">>)
    /\ digitsValue(Val(req.timestamp)) = nowMs + TimestampWindow
    /\ auth.admitted

\* a read with a query string was admitted
C33_QueryAdmitted ==
    /\ pc = "responded"
    /\ SameSecretAndClock
    /\ req.query # <<>>
    /\ auth.admitted

----------------------------------------------------------------------------
(* Claims on requests that share a signature, checked under SpecShared *)

\* two answered requests, both admitted in signature mode with the same X-Signature
AdmittedAlike(d, e) ==
    /\ SignatureMode(d.req) /\ SignatureMode(e.req)
    /\ d.decision.admitted /\ e.decision.admitted
    /\ d.req.signature = e.req.signature

\* C34: a signature accepted for one combination of method, path, X-Timestamp
\* header and body is accepted for no other: two requests admitted with the
\* same X-Signature agree in all four.
C34_SignatureBindsRequest ==
    \A i, j \in DOMAIN served :
        AdmittedAlike(served[i], served[j])
            => /\ served[i].req.method = served[j].req.method
               /\ served[i].req.path = served[j].req.path
               /\ served[i].req.timestamp = served[j].req.timestamp
               /\ served[i].req.body = served[j].req.body

\* what the signature does bind: the concatenation that is signed, and the method
C34_SignatureBindsMessage ==
    \A i, j \in DOMAIN served :
        AdmittedAlike(served[i], served[j])
            => /\ signedMessage(served[i].req) = signedMessage(served[j].req)
               /\ served[i].req.method = served[j].req.method

\* a signature made for DELETE of key 'a' was accepted for DELETE of key 'a0'
C34_OtherKeyAdmitted ==
    /\ Len(served) = 2
    /\ AdmittedAlike(served[1], served[2])
    /\ served[1].req.method = DELETE
    /\ served[1].req.path = KeyA /\ served[2].req.path = KeyA0

\* a signature made for a POST with body 'x' was accepted for a POST without
\* body whose X-Timestamp ends in 'x'
C34_ShiftedBodyAdmitted ==
    /\ Len(served) = 2
    /\ AdmittedAlike(served[1], served[2])
    /\ served[1].req = SignedPost
    /\ served[2].req.body = <<>>
    /\ served[2].req.timestamp = Some(Stamp \o <<"x">>)

\* a signature made for one method or one body was refused for another
C34_OtherMethodRefused ==
    /\ Len(served) = 2
    /\ served[1].req = SignedPost /\ served[1].decision.admitted
    /\ served[2].req.signature = SignedPost.signature
    /\ served[2].req.method = PUT
    /\ ~served[2].decision.admitted

C35_BothRejected ==
    /\ Len(served) = 2
    /\ SignatureMode(served[1].req)
    /\ served[1].req.query # served[2].req.query
    /\ [served[2].req EXCEPT !.query = <<>>] = [served[1].req EXCEPT !.query = <<>>]
    /\ ~served[1].decision.admitted /\ ~served[2].decision.admitted

----------------------------------------------------------------------------
(* Claims on the choice of the authentication method, checked under SpecAuth *)

BearerToken(r) == SubSeq(Val(r.authorization), 8, Len(Val(r.authorization)))

\* C36: when the Authorization header starts with 'Bearer ' the decision is
\* made on the token alone: the request is admitted with the right token and
\* rejected with 401 with a wrong one, whatever X-Signature and X-Timestamp it
\* carries; and a request with X-Signature, without X-Timestamp and without a
\* bearer token is never admitted.
C36_MethodSelection ==
    /\ (Decided /\ Gated(req) /\ Configured /\ BearerMode(req))
          => auth = IF BearerToken(req) = Val(secretKey)
                    THEN Admit(req.body)
                    ELSE Reject(401, "Invalid authentication token")
    /\ (Decided /\ Gated(req) /\ ~BearerMode(req) /\ IsSome(req.signature)
          /\ req.timestamp = None)
          => ~auth.admitted

\* a wrong token was rejected with 401 although the request carried a correct
\* signature with a timestamp equal to the server's time
C36_Witness ==
    /\ pc = "responded"
    /\ Gated(req)
    /\ Configured
    /\ req.authorization = Some(BearerPrefix \o <<"s">>)
    /\ req.timestamp = Some(numberToString(nowMs))
    /\ IsSome(req.signature)
    /\ SignatureIsCorrect(req)
    /\ ~Val(req.signature).upper
    /\ auth = Reject(401, "Invalid authentication token")

\* a correct signature without X-Timestamp and without Authorization was rejected
C36_SignatureWithoutTimestamp ==
    /\ pc = "responded"
    /\ Gated(req)
    /\ Configured
    /\ req.authorization = None
    /\ req.timestamp = None
    /\ IsSome(req.signature)
    /\ Val(req.signature).digest.key = Val(secretKey)
    /\ auth = Reject(401, "Invalid authentication method")

\* the right token was admitted although the signature sent along was made with another key
C36_RightTokenWrongSignature ==
    /\ pc = "responded"
    /\ Gated(req)
    /\ Configured
    /\ BearerMode(req) /\ BearerToken(req) = Val(secretKey)
    /\ IsSome(req.signature) /\ IsSome(req.timestamp)
    /\ ~SignatureIsCorrect(req)
    /\ auth.admitted

----------------------------------------------------------------------------
(* Claims on listings that race with writes, checked under SpecListRace *)

\* how often the traversal has listed the key
TimesListed(k) == Cardinality({i \in DOMAIN trav.names : trav.names[i] = k})

\* the keys that matched the prefix, were stored before the traversal began
\* and stayed, unexpired, until it ended
StableListed == {k \in StableKeys \cap DOMAIN store : StartsWith(k, trav.prefix)}

\* C37: when other keys are inserted, deleted or expire between the page
\* fetches of a listing, every key that matches the prefix and is present and
\* unexpired during the whole traversal still appears in exactly one page.
C37_StableKeysOnce ==
    trav.state = "done" => \A k \in StableListed : TimesListed(k) = 1

\* a key that was there all the time was never listed: a key before it was
\* deleted, or expired, between two pages
C37_StableKeySkipped ==
    /\ trav.state = "done"
    /\ \E k \in StableListed : TimesListed(k) = 0

\* a key that was there all the time was listed on two pages: a key before it
\* was inserted between them
C37_StableKeyTwice ==
    /\ trav.state = "done"
    /\ \E k \in StableListed : TimesListed(k) = 2

\* when nothing changed during the traversal every stable key is listed once
C37_QuietStableKeysOnce ==
    (trav.state = "done" /\ trav.quiet) => \A k \in StableListed : TimesListed(k) = 1

----------------------------------------------------------------------------
(* Claims on the limits of a listing, checked under SpecListLimits *)

\* the page just returned says there is more: it has a key and its cursor
\* starts the next page further on
PageAdvances ==
    /\ Len(resp.result.keys) >= 1
    /\ IsSome(resp.result.cursor)
    /\ parseCursor(resp.result.cursor).offset > parseCursor(resp.arg.cursor).offset

\* C38: for every limit that can reach list, 0 and negative integers
\* included, a page with list_complete = false contains at least one key and
\* its cursor encodes an offset strictly greater than the offset of the
\* request, so that following the cursors terminates.
C38_PagesAdvance ==
    (Listed /\ ~resp.result.list_complete) => PageAdvances

\* the same for the limits that are not negative
C38_NonNegativeLimitAdvances ==
    (Listed /\ ~resp.result.list_complete /\ Val(resp.arg.limit) >= 0) => PageAdvances

\* with limit 0 the default of 1000 is used and the listing is complete at once
C38_ZeroLimitIsDefault ==
    /\ Listed
    /\ resp.arg.limit = Some(0)
    /\ resp.result.list_complete
    /\ Len(resp.result.keys) = 3

\* with limit -1 every page is empty, says there is more, and its cursor
\* points one row back: the caller has fetched MaxPages pages and is not done
C38_EmptyPagesWithoutEnd ==
    /\ trav.state = "open"
    /\ trav.pages = MaxPages
    /\ trav.limit = Some(0 - 1)
    /\ trav.names = <<>>
    /\ parseCursor(trav.cursor).offset = 0 - MaxPages
    /\ DOMAIN store = Keys

----------------------------------------------------------------------------
(* Claims on the example counter, checked under SpecCounter *)

\* every call made has returned, and the number the store holds now
AllReturned == tasks # <<>> /\ \A i \in DOMAIN tasks : tasks[i].phase = "done"
StoredCount == textNumber(Val(get(store, CounterKey, nowMs)))

\* C39: if n incrementCounter calls all complete, possibly concurrently,
\* starting from a stored value v, the stored counter ends at v + n.
C39_CounterAddsUp ==
    (AllReturned /\ IsSome(resp.arg)) => StoredCount = Val(resp.arg) + Len(tasks)

\* when every call began after the calls before it had returned, the counter
\* ends at v + n
C39_OneAfterTheOther ==
    (AllReturned /\ IsSome(resp.arg) /\ \A i \in DOMAIN tasks : tasks[i].alone)
        => StoredCount = Val(resp.arg) + Len(tasks)

\* in any case the counter ends between v + 1 and v + n, at the value the
\* call that wrote last has returned
C39_CounterWithinBounds ==
    (AllReturned /\ IsSome(resp.arg))
        => /\ StoredCount >= Val(resp.arg) + 1
           /\ StoredCount <= Val(resp.arg) + Len(tasks)
           /\ \E i \in DOMAIN tasks : tasks[i].value = StoredCount

\* three calls overlapped, each read v before any of them wrote: the counter
\* ends at v + 1 and all three returned v + 1
C39_UpdatesLost ==
    /\ AllReturned
    /\ Len(tasks) = 3
    /\ resp.arg = Some(1)
    /\ \A i \in DOMAIN tasks : tasks[i].value = 2
    /\ StoredCount = 2

\* three calls one after the other on a key that did not exist: it was created
\* with 0 and ends at 3
C39_CreatedAndCounted ==
    /\ AllReturned
    /\ Len(tasks) = 3
    /\ resp.arg = None
    /\ \A i \in DOMAIN tasks : tasks[i].alone
    /\ StoredCount = 3

====
